---- MODULE Spec2Model ----
(***************************************************************************)
(* Room membership and message fan-out engine of the RadioChat WebSocket   *)
(* server (src/src/server.ts, the server that starts at line 278).         *)
(*                                                                         *)
(* Execution model.  The server is one Node.js event loop.  Every frame    *)
(* starts its own async handler (ws.on("message", async ...)), so several  *)
(* handlers, also of one connection, can be in flight at once.  A handler  *)
(* runs without interruption up to its next await on the persistent store  *)
(* and is resumed some time later.  One action of this model is one such   *)
(* segment: the code from a resumption up to the next store await, with    *)
(* the store operation it issues executed at the end of the segment and    *)
(* its result kept in the handler's record (snap) until the handler is     *)
(* resumed.  `await handleLeaveRoom(...)` awaits a function without any    *)
(* store await, so it does not end a segment.                              *)
(***************************************************************************)
EXTENDS Integers, Sequences, FiniteSets, Bags, TLC

\* ------------------------------------------------------------------ bounds
NumConns == 2
MaxFrames == 3
MsgFrames == 2
InviteFrames == 2
OwnerFrames == 2
ListFrames == 3
HistoryFrames == 3
DispatchFrames == 2
GrantFrames == 2
GuestFrames == 2
OrderFrames == 4
DMFrames == 3
PurgeFrames == 3
PairFrames == 2
AuthFrames == 3
VariantFrames == 3
RaceConns == 3
RaceFrames == 3
MaxTime == 2

\* ------------------------------------------------------------- identifiers
Null == "null"
Conns == 1..(IF RaceConns > NumConns THEN RaceConns ELSE NumConns)
Users == {"u0", "u1", "u2"}
RoomIds == {"R1", "R2", "R3"}
Names == {"general", "lobby"}
Codes == {"I1"}
InviteExpiry == 1

\* The number of rows the joins include (take: 50), at the model's scale.
HistoryTake == 2

\* The users whose tokens connections present; u0 never connects.
TokenUsers == {"u1", "u2"}

VARIABLES
    wsState,        \* connection -> "idle" | "open" | "closed"  (ws.readyState)
    userId,         \* ConnectedUser.userId of each connection's session
    connectedUsers, \* the connections that have an entry in the session registry
    currentRoomId,  \* ConnectedUser.currentRoomId of each connection's session
    activeRooms,    \* room id -> ActiveRoom (users: the roster, in push order)
    rooms,          \* store: room id -> Room row
    members,        \* store: RoomMember rows <<roomId, userId>>
    invites,        \* store: invite code -> RoomInvite row
    messages,       \* store: Message rows in insertion order
    now,            \* wall clock (Date.now())
    activeChallenges,   \* username -> the challenge stored for it, or NoChallenge
    challengesIssued,   \* how many challenges crypto.randomBytes has produced
    chatRooms,          \* approval-based variant: room id -> ChatRoom
    handlers,       \* the bag of suspended handlers (several frames in flight)
    quota,          \* the environment: the frames and connections the run still
                    \* takes, and whether the store could be reached at start
    sent,           \* what the last step wrote: events to sockets, log lines (to 0)
    last            \* the frame the last step dispatched, NoFrame for any other step

storeVars == <<rooms, members, invites, messages>>
memVars == <<wsState, userId, connectedUsers, currentRoomId, activeRooms>>
authVars == <<activeChallenges, challengesIssued>>
sideVars == <<activeChallenges, challengesIssued, chatRooms>>
vars == <<wsState, userId, connectedUsers, currentRoomId, activeRooms, rooms, members,
          invites, messages, now, activeChallenges, challengesIssued, chatRooms,
          handlers, quota, sent, last>>

\* ----------------------------------------------------------------- helpers
\* The userId of connection c's session (user.userId).
UserOf(c) == userId[c]

Range(s) == {s[i] : i \in 1..Len(s)}

\* A frame as the dispatcher sees it: its type, its connection, its payload.
Frame(type, c, arg) == [type |-> type, conn |-> c, arg |-> arg]
NoFrame == Frame(Null, 0, Null)

NoSnap ==
    [found |-> FALSE, room |-> Null, name |-> Null, roomType |-> Null,
     isMember |-> FALSE, creatorId |-> Null, deleted |-> FALSE,
     usedById |-> Null, expiresAt |-> 0, ok |-> TRUE, msg |-> 0,
     target |-> Null, holder |-> Null, holderDeleted |-> FALSE,
     publicRooms |-> <<>>, privateRooms |-> <<>>,
     encryptedKey |-> Null, messages |-> <<>>]

\* The rooms the store of the approval-based variant holds at start
\* (loadExistingRooms: each is loaded with an empty users list).
StoredRooms == {"V1"}

\* The map has no entry for a username (challenges are numbered from 1).
NoChallenge == [challenge |-> 0, timestamp |-> 0]

\* A suspended handler: where it resumes (pc), the frame type and payload, the
\* session it was called with and the result of the store operation it awaits.
Handler(pc, op, c, arg, snap) ==
    [pc |-> pc, op |-> op, conn |-> c, arg |-> arg, snap |-> snap]

InFlight == BagToSet(handlers)
Spawn(h) == handlers (+) SetToBag({h})
Finish(h) == handlers (-) SetToBag({h})
Resume(h, pc, snap) ==
    (handlers (-) SetToBag({h})) (+) SetToBag({[h EXCEPT !.pc = pc, !.snap = snap]})

Event(to, type, room, who, msg) ==
    [to |-> to, type |-> type, room |-> room, who |-> who, msg |-> msg]

\* The run's budget: f frames from n connections; a frame takes one.
Budget(f, n) == [frames |-> f, conns |-> n, storeReached |-> TRUE]
Taken(q) == [q EXCEPT !.frames = @ - 1]

\* sendMessage(ws, message): written only when the socket is open.
SendTo(ws, c, ev) == IF ws[c] = "open" THEN {ev} ELSE {}

\* sendError(ws, message)
ErrorTo(ws, c, why) == SendTo(ws, c, Event(c, "error", Null, Null, why))

\* A forEach that a closed member ends.
RecipientsUntilClosed(ar, ws, r, exclude) ==
    IF r \notin DOMAIN ar THEN <<>>
    ELSE LET us == ar[r].users
             closed == {i \in 1..Len(us) : ws[us[i]] # "open"}
             stop == IF closed = {} THEN Len(us) + 1
                     ELSE CHOOSE i \in closed : \A j \in closed : i <= j
         IN  SelectSeq(SubSeq(us, 1, stop - 1), LAMBDA x : x # exclude)

\* The sockets broadcastToRoom writes to, one send each, in the order of its
\* forEach over the roster (lines 1344-1354).
Recipients(ar, ws, r, exclude) ==
    IF r \notin DOMAIN ar THEN <<>>
    ELSE SelectSeq(ar[r].users, LAMBDA x : x # exclude /\ ws[x] = "open")

\* broadcastToRoom(roomId, message, excludeWs): to every roster member whose
\* socket is open, except excludeWs (0: none); nothing when the room is not active.
BroadcastToRoom(ar, ws, r, type, who, msg, exclude) ==
    {Event(c, type, r, who, msg) : c \in Range(Recipients(ar, ws, r, exclude))}

\* handleLeaveRoom without the removal of the emptied room.
LeaveRegistryKeepsEmpty(ar, c, r) ==
    IF r \notin DOMAIN ar THEN ar
    ELSE [ar EXCEPT ![r].users =
                SelectSeq(@, LAMBDA x : UserOf(x) # UserOf(c))]

\* handleLeaveRoom(user, {roomId}), the registry after it: the roster loses every
\* entry with the leaver's userId, and an empty room is removed.
LeaveRegistry(ar, c, r) ==
    IF r \notin DOMAIN ar THEN ar
    ELSE LET kept == SelectSeq(ar[r].users, LAMBDA x : UserOf(x) # UserOf(c))
         IN  IF Len(kept) = 0
             THEN [x \in DOMAIN ar \ {r} |-> ar[x]]
             ELSE [ar EXCEPT ![r].users = kept]

\* handleLeaveRoom broadcasting userLeft before it filters the roster.
LeaveEventsBeforeFilter(ar, ws, c, r) ==
    IF r \notin DOMAIN ar THEN {}
    ELSE LET kept == SelectSeq(ar[r].users, LAMBDA x : UserOf(x) # UserOf(c))
         IN  {Event(x, "userLeft", r, UserOf(c), 0) :
                x \in {y \in Range(ar[r].users) : ws[y] = "open"}}
             \cup (IF Len(kept) = 0 THEN {Event(0, "logRoomRemoved", r, Null, 0)}
                   ELSE {})

\* handleLeaveRoom: the userLeft broadcast, sent after the filter and before the
\* empty-room removal, with no exclusion; the removal is logged (line 1311).
LeaveEvents(ar, ws, c, r) ==
    IF r \notin DOMAIN ar THEN {}
    ELSE LET kept == SelectSeq(ar[r].users, LAMBDA x : UserOf(x) # UserOf(c))
         IN  {Event(x, "userLeft", r, UserOf(c), 0) :
                x \in {y \in Range(kept) : ws[y] = "open"}}
             \cup (IF Len(kept) = 0 THEN {Event(0, "logRoomRemoved", r, Null, 0)}
                   ELSE {})

\* crypto.randomBytes(32).toString('hex') (lines 1119, 1187): a key no other
\* room has.
NewKey(r) == "key-" \o r

\* ------------------------------------------------------------------- Init
\* The membership rows the store starts with.
InitialMembers == {<<"R1", "u1">>, <<"R2", "u0">>}

\* The store outlives the process: at start it holds a public room R1 owned by
\* u1, a private room R2 owned by u0, one unused invite to R2, the membership
\* rows ms and the message rows msgs.
Stored(ms, msgs) ==
    /\ wsState = [c \in Conns |-> "idle"]
    /\ userId = [c \in Conns |-> Null]
    /\ connectedUsers = {}
    /\ currentRoomId = [c \in Conns |-> Null]
    /\ activeRooms = <<>>
    /\ rooms = [r \in {"R1", "R2"} |->
                  IF r = "R1"
                  THEN [name |-> "general", roomType |-> "public",
                        creatorId |-> "u1", deleted |-> FALSE,
                        encryptedKey |-> NewKey(r)]
                  ELSE [name |-> "secret", roomType |-> "private",
                        creatorId |-> "u0", deleted |-> FALSE,
                        encryptedKey |-> Null]]
    /\ members = ms
    /\ invites = [i \in Codes |->
                    [roomId |-> "R2", expiresAt |-> InviteExpiry, usedById |-> Null]]
    /\ messages = msgs
    /\ now = 0
    /\ activeChallenges = [u \in Users |-> NoChallenge]
    /\ challengesIssued = 0
    /\ chatRooms = [r \in StoredRooms |->
                      [creator |-> "u0", users |-> <<>>, pendingRequests |-> <<>>]]
    /\ handlers = EmptyBag
    /\ sent = {}
    /\ last = NoFrame

Booted(ms) == Stored(ms, <<>>)

Boot == Booted(InitialMembers)

Init == Boot /\ quota = Budget(MaxFrames, NumConns)

\* ------------------------------------------------------------ connections
\* wss.on("connection") with a valid token of user u (lines 348-403): the session
\* is registered and the welcome is sent.  Connections are numbered in the order
\* in which they are accepted.
Connect(c, u) ==
    /\ wsState[c] = "idle"
    /\ \A d \in Conns : d < c => wsState[d] # "idle"
    /\ quota.conns > 0
    /\ quota' = [quota EXCEPT !.conns = @ - 1]
    /\ wsState' = [wsState EXCEPT ![c] = "open"]
    /\ userId' = [userId EXCEPT ![c] = u]
    /\ connectedUsers' = connectedUsers \cup {c}
    /\ sent' = {Event(c, "info", Null, u, 0)}
    /\ last' = NoFrame
    /\ UNCHANGED <<currentRoomId, activeRooms, storeVars, now, sideVars, handlers>>

\* ws.on("close") and handleDisconnect: the socket is closed when the event is
\* handled; the session leaves its current room and is unregistered.
Close(c) ==
    /\ wsState[c] = "open"
    /\ LET ws == [wsState EXCEPT ![c] = "closed"]
           r == currentRoomId[c]
           registered == c \in connectedUsers
           leaves == registered /\ r # Null
       IN  /\ wsState' = ws
           /\ connectedUsers' = connectedUsers \ {c}
           /\ activeRooms' = IF leaves THEN LeaveRegistry(activeRooms, c, r)
                             ELSE activeRooms
           /\ currentRoomId' = IF leaves THEN [currentRoomId EXCEPT ![c] = Null]
                               ELSE currentRoomId
           /\ sent' = IF leaves THEN LeaveEvents(activeRooms, ws, c, r) ELSE {}
           /\ last' = NoFrame
    /\ UNCHANGED <<userId, storeVars, now, sideVars, handlers, quota>>

\* The identity the store gives the guest of connection c (dbUser.id).
GuestId(c) == IF c = 1 THEN "g1" ELSE IF c = 2 THEN "g2" ELSE "g3"

\* A connection without a valid token (lines 375-383): the handler awaits
\* prisma.user.create before it registers the session and before it attaches
\* the message and close listeners.  A create that throws ends the handler.
ConnectGuest(c) ==
    /\ wsState[c] = "idle"
    /\ \A d \in Conns : d < c => wsState[d] # "idle"
    /\ quota.conns > 0
    /\ quota' = [quota EXCEPT !.conns = @ - 1]
    /\ wsState' = [wsState EXCEPT ![c] = "open"]
    /\ \E ok \in BOOLEAN :
         handlers' = IF ok THEN Spawn(Handler("guestCreated", "connect", c, Null,
                                              NoSnap))
                     ELSE handlers
    /\ sent' = {}
    /\ last' = NoFrame
    /\ UNCHANGED <<userId, connectedUsers, currentRoomId, activeRooms,
                   storeVars, now, sideVars>>

\* Lines 385-403 and the listeners attached after them (409, 489): the session is
\* registered and welcomed whatever the socket's state is by now; a close
\* event emitted during the await had no listener and is not emitted again.
GuestRegister(h) ==
    /\ h.pc = "guestCreated"
    /\ userId' = [userId EXCEPT ![h.conn] = GuestId(h.conn)]
    /\ connectedUsers' = connectedUsers \cup {h.conn}
    /\ sent' = SendTo(wsState, h.conn,
                      Event(h.conn, "info", Null, GuestId(h.conn), 0))
    /\ handlers' = Finish(h)
    /\ last' = NoFrame
    /\ UNCHANGED <<wsState, currentRoomId, activeRooms, storeVars, now, sideVars, quota>>

\* A frame is dispatched for an open connection with a registered session
\* (ws.on("message"), lines 409-483), within the run's budget.
Accepts(c) ==
    /\ wsState[c] = "open"
    /\ c \in connectedUsers
    /\ quota.frames > 0

\* ------------------------------------------------------------- leaveRoom
\* The leaveRoom frame: handleLeaveRoom(currentUser, payload), which has no
\* store await.  A payload without roomId returns at once.
LeaveRoom(c, r) ==
    /\ Accepts(c)
    /\ quota' = Taken(quota)
    /\ IF r = Null
       THEN /\ UNCHANGED <<activeRooms, currentRoomId>>
            /\ sent' = {}
            /\ last' = Frame("leaveRoom", c, Null)
       ELSE /\ activeRooms' = LeaveRegistry(activeRooms, c, r)
            /\ currentRoomId' = [currentRoomId EXCEPT ![c] = Null]
            /\ sent' = LeaveEvents(activeRooms, wsState, c, r)
            /\ last' = Frame("leaveRoom", c, r)
    /\ UNCHANGED <<wsState, userId, connectedUsers, storeVars, now, sideVars, handlers>>

\* -------------------------------------------------------------- joinRoom
\* prisma.room.findFirst of handleJoinRoom (lines 517-539): the non-deleted rooms
\* the id or the name selects (a field the payload lacks selects none); the
\* store returns any one of them.
Resolve(rid, rname) ==
    LET hits == {r \in DOMAIN rooms :
                   /\ ~rooms[r].deleted
                   /\ \/ rid # Null /\ r = rid
                      \/ rname # Null /\ rooms[r].name = rname}
    IN  IF hits = {} THEN {Null} ELSE hits

\* A history fetch (GET /api/rooms/:roomId/messages, src/src/db.ts lines 251-280):
\* the `limit` most recent rows of room r, oldest first.
RoomHistory(ms, r, limit) ==
    LET rows == SelectSeq(ms, LAMBDA m : m.roomId = r)
    IN  IF Len(rows) <= limit THEN rows
        ELSE SubSeq(rows, Len(rows) - limit + 1, Len(rows))

Reverse(q) == [i \in 1..Len(q) |-> q[Len(q) + 1 - i]]

\* An include that forgot its take.
IncludedMessagesAll(ms, r) ==
    Reverse(SelectSeq(ms, LAMBDA m : m.roomId = r))

\* include: { messages: { orderBy: { createdAt: 'desc' }, take: 50 } } (lines
\* 527-534, 786-795): the newest rows of room r, newest first.
IncludedMessages(ms, r) ==
    LET rows == Reverse(SelectSeq(ms, LAMBDA m : m.roomId = r))
    IN  IF Len(rows) <= HistoryTake THEN rows ELSE SubSeq(rows, 1, HistoryTake)

\* What findFirst returns for room r (Null: no room), with the caller's own
\* membership row and the newest messages included.
RoomSnap(r, u) ==
    IF r = Null THEN NoSnap
    ELSE [NoSnap EXCEPT !.found = TRUE, !.room = r, !.name = rooms[r].name,
                        !.roomType = rooms[r].roomType,
                        !.creatorId = rooms[r].creatorId,
                        !.isMember = (<<r, u>> \in members),
                        !.encryptedKey = rooms[r].encryptedKey,
                        !.messages = IncludedMessages(messages, r)]

\* A join that pushes the session without looking for it in the roster.
JoinRegistryAlwaysPushes(ar, c, r, name) ==
    LET base == IF r \in DOMAIN ar THEN ar
                ELSE (r :> [name |-> name, users |-> <<>>]) @@ ar
    IN  [base EXCEPT ![r].users = Append(@, c)]

\* Lines 570-587: the ActiveRoom is created when absent and the session is pushed
\* unless the roster already holds an entry with its userId.
JoinRegistry(ar, c, r, name) ==
    LET base == IF r \in DOMAIN ar THEN ar
                ELSE (r :> [name |-> name, users |-> <<>>]) @@ ar
    IN  IF \E x \in Range(base[r].users) : UserOf(x) = UserOf(c)
        THEN base
        ELSE [base EXCEPT ![r].users = Append(@, c)]

\* room.encryptedKey || '' (line 612).
KeyOrEmpty(k) == IF k = Null THEN "" ELSE k

\* Lines 590-603, 611-614: the payload of roomJoined, the included rows
\* reversed to oldest first (their ids stand for them) and the key.
JoinedPayload(s) ==
    [encryptedKey |-> KeyOrEmpty(s.encryptedKey),
     messages |-> [i \in 1..Len(s.messages) |-> Reverse(s.messages)[i].id]]

\* Lines 605-625: roomJoined to the caller, userJoined to the others.
JoinEvents(ar, ws, c, s) ==
    SendTo(ws, c, Event(c, "roomJoined", s.room, UserOf(c), JoinedPayload(s)))
        \cup BroadcastToRoom(ar, ws, s.room, "userJoined", UserOf(c), 0, c)

\* handleJoinRoom without its access check.
AccessNeverDenied(s) == FALSE

\* The access check of line 546.
AccessDenied(s) == s.roomType = "private" /\ ~s.isMember

\* The joinRoom frame up to the await of findFirst.
JoinRoom(c, rid, rname) ==
    /\ Accepts(c)
    /\ quota' = Taken(quota)
    /\ IF rid = Null /\ rname = Null
       THEN /\ sent' = ErrorTo(wsState, c, "roomRequired")
            /\ last' = Frame("joinRoom", c, Null)
            /\ UNCHANGED handlers
       ELSE /\ \E r \in Resolve(rid, rname) :
                 handlers' = Spawn(Handler("found", "joinRoom", c, rid,
                                           RoomSnap(r, UserOf(c))))
            /\ sent' = {}
            /\ last' = Frame("joinRoom", c, rid)
    /\ UNCHANGED <<memVars, storeVars, now, sideVars>>

\* handleJoinRoom from the result of findFirst to the await of the membership
\* upsert (lines 541-568): the two rejections, the leave of the current room.
JoinCheck(h) ==
    LET c == h.conn
        s == h.snap
        cur == currentRoomId[c]
    IN  /\ h.pc = "found"
        /\ IF ~s.found \/ AccessDenied(s)
           THEN /\ handlers' = Finish(h)
                /\ sent' = ErrorTo(wsState, c,
                                   IF ~s.found THEN "roomNotFound" ELSE "accessDenied")
                /\ last' = NoFrame
                /\ UNCHANGED <<activeRooms, currentRoomId, members>>
           ELSE /\ handlers' = Resume(h, "upserted", s)
                /\ activeRooms' = IF cur # Null
                                  THEN LeaveRegistry(activeRooms, c, cur)
                                  ELSE activeRooms
                /\ currentRoomId' = [currentRoomId EXCEPT ![c] = Null]
                /\ sent' = IF cur # Null
                           THEN LeaveEvents(activeRooms, wsState, c, cur) ELSE {}
                /\ members' = members \cup {<<s.room, UserOf(c)>>}
                /\ last' = NoFrame
        /\ UNCHANGED <<wsState, userId, connectedUsers, rooms, invites, messages, now, sideVars,
                       quota>>

\* handleJoinRoom after the upsert (lines 570-627).
JoinFinish(h) ==
    LET c == h.conn
        s == h.snap
        ar == JoinRegistry(activeRooms, c, s.room, s.name)
    IN  /\ h.pc = "upserted"
        /\ activeRooms' = ar
        /\ currentRoomId' = [currentRoomId EXCEPT ![c] = s.room]
        /\ sent' = JoinEvents(ar, wsState, c, s)
        /\ last' = NoFrame
        /\ handlers' = Finish(h)
        /\ UNCHANGED <<wsState, userId, connectedUsers, storeVars, now, sideVars, quota>>

\* ------------------------------------------------------------ deleteRoom
\* prisma.room.findUnique({id}): the row whatever its deletedAt.
RowSnap(r) ==
    IF r \notin DOMAIN rooms THEN NoSnap
    ELSE [NoSnap EXCEPT !.found = TRUE, !.room = r, !.name = rooms[r].name,
                        !.roomType = rooms[r].roomType,
                        !.creatorId = rooms[r].creatorId,
                        !.deleted = rooms[r].deleted]

\* The ownership check (line 989).
NotOwner(s, u) == s.creatorId # u

\* The deleteRoom frame up to the await of findUnique (lines 973-983).
DeleteRoom(c, rid) ==
    /\ Accepts(c)
    /\ quota' = Taken(quota)
    /\ IF rid = Null
       THEN /\ sent' = ErrorTo(wsState, c, "roomRequired")
            /\ last' = Frame("deleteRoom", c, Null)
            /\ UNCHANGED handlers
       ELSE /\ handlers' = Spawn(Handler("delFound", "deleteRoom", c, rid,
                                         RowSnap(rid)))
            /\ sent' = {}
            /\ last' = Frame("deleteRoom", c, rid)
    /\ UNCHANGED <<memVars, storeVars, now, sideVars>>

\* Lines 985-997: the two rejections, then the soft delete.
DeleteCheck(h) ==
    LET c == h.conn
        s == h.snap
    IN  /\ h.pc = "delFound"
        /\ IF ~s.found \/ NotOwner(s, UserOf(c))
           THEN /\ handlers' = Finish(h)
                /\ sent' = ErrorTo(wsState, c,
                                   IF ~s.found THEN "roomNotFound" ELSE "notOwner")
                /\ last' = NoFrame
                /\ UNCHANGED rooms
           ELSE /\ handlers' = Resume(h, "delMarked", s)
                /\ rooms' = [rooms EXCEPT ![h.arg].deleted = TRUE]
                /\ sent' = {}
                /\ last' = NoFrame
        /\ UNCHANGED <<memVars, members, invites, messages, now, sideVars, quota>>

\* Lines 999-1006: roomDeleted to the live roster, then the room leaves the
\* registry.
DeleteRegistry(ar, r) == [x \in DOMAIN ar \ {r} |-> ar[x]]

DeleteFinish(h) ==
    LET c == h.conn
    IN  /\ h.pc = "delMarked"
        /\ sent' = BroadcastToRoom(activeRooms, wsState, h.arg, "roomDeleted",
                                   Null, 0, 0)
        /\ activeRooms' = DeleteRegistry(activeRooms, h.arg)
        /\ last' = NoFrame
        /\ handlers' = Finish(h)
        /\ UNCHANGED <<wsState, userId, connectedUsers, currentRoomId, storeVars, now, sideVars,
                       quota>>

\* Usernames are the user ids of the model; every user of Users has a User row.
UserExists(name) == name \in Users

\* The ids the store gives to new rooms (uuids), and those it has not yet used.
NewIds == {"R3", "R4"}
FreshRooms == NewIds \ DOMAIN rooms

\* ------------------------------------------------------------ renameRoom
\* prisma.room.findUnique({name}): the rooms table has a unique index on name,
\* so at most one row, deleted or not, holds a name.
NameHolder(rs, n) == {r \in DOMAIN rs : rs[r].name = n}

\* The result of the lookup by name added to snapshot s.
NameSnap(s, n) ==
    IF NameHolder(rooms, n) = {} THEN [s EXCEPT !.holder = Null]
    ELSE LET x == CHOOSE r \in NameHolder(rooms, n) : TRUE
         IN  [s EXCEPT !.holder = x, !.holderDeleted = rooms[x].deleted]

\* Room.name is a unique key (the lookups by name are findUnique calls): a
\* write of name n to row r (Null: a new row) is refused when another row,
\* deleted or not, holds n.
NameClash(rs, n, r) == NameHolder(rs, n) \ {r} # {}

\* The renameRoom frame up to the await of findUnique (lines 914-924).
RenameRoom(c, rid, newName) ==
    /\ Accepts(c)
    /\ quota' = Taken(quota)
    /\ last' = Frame("renameRoom", c, rid)
    /\ IF rid = Null \/ newName = Null
       THEN /\ sent' = ErrorTo(wsState, c, "renameRequired")
            /\ UNCHANGED handlers
       ELSE /\ handlers' = Spawn(Handler("renFound", "renameRoom", c, rid,
                                         [RowSnap(rid) EXCEPT !.target = newName]))
            /\ sent' = {}
    /\ UNCHANGED <<memVars, storeVars, now, sideVars>>

\* Lines 926-937: the two rejections, then the lookup of the new name.
RenameCheck(h) ==
    LET c == h.conn
        s == h.snap
    IN  /\ h.pc = "renFound"
        /\ last' = NoFrame
        /\ IF ~s.found \/ NotOwner(s, UserOf(c))
           THEN /\ handlers' = Finish(h)
                /\ sent' = ErrorTo(wsState, c,
                                   IF ~s.found THEN "roomNotFound" ELSE "notOwner")
           ELSE /\ handlers' = Resume(h, "renNameRead", NameSnap(s, s.target))
                /\ sent' = {}
        /\ UNCHANGED <<memVars, storeVars, now, sideVars, quota>>

\* Line 939: existingRoom && existingRoom.id !== roomId.
NameTaken(s, rid) == s.holder # Null /\ s.holder # rid

\* Lines 939-951: the name-taken rejection, then the update, which throws when
\* the unique index is violated.
RenameUpdate(h) ==
    LET c == h.conn
        s == h.snap
        clash == NameClash(rooms, s.target, h.arg)
    IN  /\ h.pc = "renNameRead"
        /\ last' = NoFrame
        /\ IF NameTaken(s, h.arg)
           THEN /\ handlers' = Finish(h)
                /\ sent' = ErrorTo(wsState, c, "nameTaken")
                /\ UNCHANGED rooms
           ELSE /\ handlers' = Resume(h, "renUpdated", [s EXCEPT !.ok = ~clash])
                /\ rooms' = IF clash THEN rooms
                            ELSE [rooms EXCEPT ![h.arg].name = s.target]
                /\ sent' = {}
        /\ UNCHANGED <<memVars, members, invites, messages, now, sideVars, quota>>

\* Lines 953-968: the cached ActiveRoom takes the new name.
RenameRegistry(ar, r, n) ==
    IF r \in DOMAIN ar THEN [ar EXCEPT ![r].name = n] ELSE ar

\* Lines 953-970, or the dispatcher's answer to the throw of the update.
RenameFinish(h) ==
    LET c == h.conn
        s == h.snap
    IN  /\ h.pc = "renUpdated"
        /\ last' = NoFrame
        /\ handlers' = Finish(h)
        /\ IF ~s.ok
           THEN /\ sent' = ErrorTo(wsState, c, "invalidFormat")
                /\ UNCHANGED activeRooms
           ELSE /\ activeRooms' = RenameRegistry(activeRooms, h.arg, s.target)
                /\ sent' = BroadcastToRoom(activeRooms, wsState, h.arg, "roomRenamed",
                                           Null, s.target, 0)
        /\ UNCHANGED <<wsState, userId, connectedUsers, currentRoomId, storeVars, now, sideVars,
                       quota>>

\* ------------------------------------------------------------ createRoom
\* The createRoom frame up to the await of findUnique (lines 1150-1166).
CreateRoom(c, name, roomType) ==
    /\ Accepts(c)
    /\ quota' = Taken(quota)
    /\ last' = Frame("createRoom", c, name)
    /\ IF name = Null \/ roomType \notin {"public", "private"}
       THEN /\ sent' = ErrorTo(wsState, c,
                               IF name = Null THEN "nameRequired" ELSE "typeRequired")
            /\ UNCHANGED handlers
       ELSE /\ handlers' = Spawn(Handler("crNameRead", "createRoom", c, name,
                                 [NameSnap(NoSnap, name) EXCEPT !.target = name,
                                                                !.roomType = roomType]))
            /\ sent' = {}
    /\ UNCHANGED <<memVars, storeVars, now, sideVars>>

\* createRoom taking the deleted holders for the live ones.
NameExistsInverted(s) == s.holder # Null /\ s.holderDeleted

\* Lines 1168-1172: a row that is not deleted holds the name.
NameExists(s) == s.holder # Null /\ ~s.holderDeleted

\* Line 1179: the name a deleted row is moved to.
ArchivedName(n, t) == n \o "_deleted_" \o ToString(t)

\* prisma.room.create (lines 1193-1201) issued by handler h with snapshot s: a
\* row with a new id, or a throw when the unique index on name is violated.
InsertRoom(h, s) ==
    IF NameClash(rooms, s.target, Null)
    THEN /\ handlers' = Resume(h, "crCreated", [s EXCEPT !.ok = FALSE])
         /\ UNCHANGED rooms
    ELSE /\ FreshRooms # {}
         /\ LET r == CHOOSE x \in FreshRooms : TRUE
            IN  /\ rooms' = (r :> [name |-> s.target, roomType |-> s.roomType,
                                   creatorId |-> UserOf(h.conn),
                                   deleted |-> FALSE,
                                   encryptedKey |-> NewKey(r)]) @@ rooms
                /\ handlers' = Resume(h, "crCreated", [s EXCEPT !.ok = TRUE, !.room = r])

\* Lines 1168-1201 after the lookup: the name-taken rejection; a deleted holder
\* of the name is renamed away; without a holder the room is created.
CreateArchive(h) ==
    LET c == h.conn
        s == h.snap
        moved == ArchivedName(s.target, now)
        clash == NameClash(rooms, moved, s.holder)
    IN  /\ h.pc = "crNameRead"
        /\ last' = NoFrame
        /\ IF NameExists(s)
           THEN /\ handlers' = Finish(h)
                /\ sent' = ErrorTo(wsState, c, "nameTaken")
                /\ UNCHANGED rooms
           ELSE IF s.holder # Null
           THEN /\ handlers' = Resume(h, "crArchived", [s EXCEPT !.ok = ~clash])
                /\ rooms' = IF clash THEN rooms
                            ELSE [rooms EXCEPT ![s.holder].name = moved]
                /\ sent' = {}
           ELSE /\ InsertRoom(h, s)
                /\ sent' = {}
        /\ UNCHANGED <<memVars, members, invites, messages, now, sideVars, quota>>

\* Lines 1186-1201 after the rename of the deleted row.
CreateInsert(h) ==
    LET c == h.conn
        s == h.snap
    IN  /\ h.pc = "crArchived"
        /\ last' = NoFrame
        /\ IF ~s.ok
           THEN /\ handlers' = Finish(h)
                /\ sent' = ErrorTo(wsState, c, "invalidFormat")
                /\ UNCHANGED rooms
           ELSE /\ InsertRoom(h, s)
                /\ sent' = {}
        /\ UNCHANGED <<memVars, members, invites, messages, now, sideVars, quota>>

\* Lines 1203-1209: the creator's membership row.
CreateMember(h) ==
    LET c == h.conn
        s == h.snap
    IN  /\ h.pc = "crCreated"
        /\ last' = NoFrame
        /\ IF ~s.ok
           THEN /\ handlers' = Finish(h)
                /\ sent' = ErrorTo(wsState, c, "invalidFormat")
                /\ UNCHANGED members
           ELSE /\ handlers' = Resume(h, "crMember", s)
                /\ members' = members \cup {<<s.room, UserOf(c)>>}
                /\ sent' = {}
        /\ UNCHANGED <<memVars, rooms, invites, messages, now, sideVars, quota>>

\* Lines 1211-1223: roomCreated to the caller.
CreateFinish(h) ==
    /\ h.pc = "crMember"
    /\ last' = NoFrame
    /\ handlers' = Finish(h)
    /\ sent' = SendTo(wsState, h.conn,
                      Event(h.conn, "roomCreated", h.snap.room, UserOf(h.conn), 0))
    /\ UNCHANGED <<memVars, storeVars, now, sideVars, quota>>

\* ------------------------------------------------------------- listRooms
\* Line 1270: _count.members, the number of membership rows of room r.
MemberCount(ms, r) == Cardinality({m \in ms : m[1] = r})

\* The include of both queries and formatRoom (lines 1236-1242, 1265-1272):
\* the count of the room's membership rows, and whether user u has one.
RoomRow(ms, r, u) ==
    [memberCount |-> MemberCount(ms, r), isJoined |-> <<r, u>> \in ms]

\* A first query that dropped its deletedAt filter.
PublicRoomsWithDeleted(rs, ms, u) ==
    [r \in {x \in DOMAIN rs : rs[x].roomType = "public"} |-> RoomRow(ms, r, u)]

\* Lines 1230-1243: findMany of the public rooms that are not deleted.
PublicRooms(rs, ms, u) ==
    [r \in {x \in DOMAIN rs : rs[x].roomType = "public" /\ ~rs[x].deleted}
       |-> RoomRow(ms, r, u)]

\* Lines 1246-1262: findMany of the private and dm rooms that are not deleted
\* and have a membership row of user u.
PrivateRooms(rs, ms, u) ==
    [r \in {x \in DOMAIN rs : /\ rs[x].roomType \in {"private", "dm"}
                              /\ ~rs[x].deleted
                              /\ <<x, u>> \in ms}
       |-> RoomRow(ms, r, u)]

\* One entry of the list named by key, as the client receives it.
ListEntry(c, key, r, row) == Event(c, "listedRoom", r, key, row)

\* The listRooms frame up to the await of the first findMany (lines 1226-1243).
ListRooms(c) ==
    /\ Accepts(c)
    /\ quota' = Taken(quota)
    /\ last' = Frame("listRooms", c, Null)
    /\ handlers' = Spawn(Handler("listPublic", "listRooms", c, Null,
                                 [NoSnap EXCEPT !.publicRooms =
                                      PublicRooms(rooms, members, UserOf(c))]))
    /\ sent' = {}
    /\ UNCHANGED <<memVars, storeVars, now, sideVars>>

\* Lines 1246-1262: the second findMany.
ListPrivate(h) ==
    /\ h.pc = "listPublic"
    /\ last' = NoFrame
    /\ handlers' = Resume(h, "listPrivate",
                          [h.snap EXCEPT !.privateRooms =
                               PrivateRooms(rooms, members, UserOf(h.conn))])
    /\ sent' = {}
    /\ UNCHANGED <<memVars, storeVars, now, sideVars, quota>>

\* Lines 1274-1280: one roomsList message holding both lists; its entries are
\* written with it.
ListFinish(h) ==
    LET c == h.conn
        s == h.snap
    IN  /\ h.pc = "listPrivate"
        /\ last' = NoFrame
        /\ handlers' = Finish(h)
        /\ sent' = IF wsState[c] # "open" THEN {}
                   ELSE {Event(c, "roomsList", Null, UserOf(c), 0)}
                        \cup {ListEntry(c, "publicRooms", r, s.publicRooms[r]) :
                                 r \in DOMAIN s.publicRooms}
                        \cup {ListEntry(c, "privateRooms", r, s.privateRooms[r]) :
                                 r \in DOMAIN s.privateRooms}
        /\ UNCHANGED <<memVars, storeVars, now, sideVars, quota>>

\* ----------------------------------------------------- transferOwnership
\* The transferOwnership frame up to the await of findUnique (lines 1011-1021).
TransferOwnership(c, rid, target) ==
    /\ Accepts(c)
    /\ quota' = Taken(quota)
    /\ last' = Frame("transferOwnership", c, rid)
    /\ IF rid = Null \/ target = Null
       THEN /\ sent' = ErrorTo(wsState, c, "transferRequired")
            /\ UNCHANGED handlers
       ELSE /\ handlers' = Spawn(Handler("trFound", "transferOwnership", c, rid,
                                         [RowSnap(rid) EXCEPT !.target = target]))
            /\ sent' = {}
    /\ UNCHANGED <<memVars, storeVars, now, sideVars>>

\* Lines 1023-1034: the two rejections, then the lookup of the target user.
TransferCheck(h) ==
    LET c == h.conn
        s == h.snap
    IN  /\ h.pc = "trFound"
        /\ last' = NoFrame
        /\ IF ~s.found \/ NotOwner(s, UserOf(c))
           THEN /\ handlers' = Finish(h)
                /\ sent' = ErrorTo(wsState, c,
                                   IF ~s.found THEN "roomNotFound" ELSE "notOwner")
           ELSE /\ handlers' = Resume(h, "trTarget",
                                      [s EXCEPT !.ok = UserExists(s.target)])
                /\ sent' = {}
        /\ UNCHANGED <<memVars, storeVars, now, sideVars, quota>>

\* Lines 1036-1044: the target must exist; then creatorId is updated.
TransferUpdate(h) ==
    LET c == h.conn
        s == h.snap
    IN  /\ h.pc = "trTarget"
        /\ last' = NoFrame
        /\ IF ~s.ok
           THEN /\ handlers' = Finish(h)
                /\ sent' = ErrorTo(wsState, c, "targetNotFound")
                /\ UNCHANGED rooms
           ELSE /\ handlers' = Resume(h, "trUpdated", s)
                /\ rooms' = [rooms EXCEPT ![h.arg].creatorId = s.target]
                /\ sent' = {}
        /\ UNCHANGED <<memVars, members, invites, messages, now, sideVars, quota>>

\* Lines 1046-1059: the upsert of the target's membership row.
TransferMember(h) ==
    /\ h.pc = "trUpdated"
    /\ last' = NoFrame
    /\ handlers' = Resume(h, "trUpserted", h.snap)
    /\ members' = members \cup {<<h.arg, h.snap.target>>}
    /\ sent' = {}
    /\ UNCHANGED <<memVars, rooms, invites, messages, now, sideVars, quota>>

\* Lines 1061-1071: ownershipTransferred to the live roster.
TransferFinish(h) ==
    /\ h.pc = "trUpserted"
    /\ last' = NoFrame
    /\ handlers' = Finish(h)
    /\ sent' = BroadcastToRoom(activeRooms, wsState, h.arg, "ownershipTransferred",
                               h.snap.target, 0, 0)
    /\ UNCHANGED <<memVars, storeVars, now, sideVars, quota>>

\* ----------------------------------------------------------- createInvite
\* crypto.randomBytes(4) (line 746): any code, one in use included.
InviteCodes == Codes \cup {"I2", "I3"}

\* A createInvite that takes every requester for a member.
MembershipAssumed(ms, r, u) == TRUE

\* prisma.roomMember.findUnique (lines 729-739): the requester's membership row
\* in room r exists.
MembershipFound(ms, r, u) == <<r, u>> \in ms

\* The createInvite frame up to the await of the membership lookup (721-739).
CreateInvite(c, rid) ==
    /\ Accepts(c)
    /\ quota' = Taken(quota)
    /\ last' = Frame("createInvite", c, rid)
    /\ IF rid = Null
       THEN /\ sent' = ErrorTo(wsState, c, "roomRequired")
            /\ UNCHANGED handlers
       ELSE /\ handlers' = Spawn(Handler("ciMember", "createInvite", c, rid,
                                 [NoSnap EXCEPT !.room = rid,
                                      !.isMember =
                                          MembershipFound(members, rid, UserOf(c))]))
            /\ sent' = {}
    /\ UNCHANGED <<memVars, storeVars, now, sideVars>>

\* Lines 741-758: the rejection of a requester without a membership row; for a
\* member the code and the expiry are made and the invite is inserted.  The
\* insert of a code in use violates the unique key and throws.
CreateInviteCheck(h) ==
    LET c == h.conn
        s == h.snap
    IN  /\ h.pc = "ciMember"
        /\ last' = NoFrame
        /\ IF ~s.isMember
           THEN /\ handlers' = Finish(h)
                /\ sent' = ErrorTo(wsState, c, "notMember")
                /\ UNCHANGED invites
           ELSE /\ sent' = {}
                /\ \E code \in InviteCodes :
                     IF code \in DOMAIN invites
                     THEN /\ handlers' = Resume(h, "ciCreated", [s EXCEPT !.ok = FALSE])
                          /\ UNCHANGED invites
                     ELSE /\ handlers' = Resume(h, "ciCreated",
                                            [s EXCEPT !.ok = TRUE, !.target = code,
                                                      !.expiresAt = now + InviteExpiry])
                          /\ invites' = (code :> [roomId |-> s.room,
                                                  expiresAt |-> now + InviteExpiry,
                                                  usedById |-> Null]) @@ invites
        /\ UNCHANGED <<memVars, rooms, members, messages, now, sideVars, quota>>

\* Lines 760-771: inviteCreated to the requester, or the dispatcher's answer to
\* the throw.
CreateInviteFinish(h) ==
    LET c == h.conn
        s == h.snap
    IN  /\ h.pc = "ciCreated"
        /\ last' = NoFrame
        /\ handlers' = Finish(h)
        /\ sent' = IF s.ok
                   THEN SendTo(wsState, c,
                               Event(c, "inviteCreated", s.room, s.target, s.expiresAt))
                   ELSE ErrorTo(wsState, c, "invalidFormat")
        /\ UNCHANGED <<memVars, storeVars, now, sideVars, quota>>

\* --------------------------------------------------------- joinViaInvite
\* prisma.roomInvite.findUnique({code}) with its room (lines 782-799).
InviteSnap(code) ==
    IF code \notin DOMAIN invites THEN NoSnap
    ELSE LET i == invites[code]
         IN  [NoSnap EXCEPT !.found = TRUE, !.room = i.roomId,
                            !.name = rooms[i.roomId].name,
                            !.roomType = rooms[i.roomId].roomType,
                            !.creatorId = rooms[i.roomId].creatorId,
                            !.deleted = rooms[i.roomId].deleted,
                            !.usedById = i.usedById, !.expiresAt = i.expiresAt,
                            !.encryptedKey = rooms[i.roomId].encryptedKey,
                            !.messages = IncludedMessages(messages, i.roomId)]

\* Line 806: new Date() > invite.expiresAt.
Expired(t, s) == t > s.expiresAt

\* Lines 801-818: why the redemption is refused, Null when it is not.
InviteRefusal(t, s) ==
    IF ~s.found THEN "invalidCode"
    ELSE IF Expired(t, s) THEN "expired"
    ELSE IF s.usedById # Null THEN "alreadyUsed"
    ELSE IF s.deleted THEN "roomGone"
    ELSE Null

\* The joinViaInvite frame up to the await of the invite lookup.
JoinViaInvite(c, code) ==
    /\ Accepts(c)
    /\ quota' = Taken(quota)
    /\ IF code = Null
       THEN /\ sent' = ErrorTo(wsState, c, "codeRequired")
            /\ last' = Frame("joinViaInvite", c, Null)
            /\ UNCHANGED handlers
       ELSE /\ handlers' = Spawn(Handler("inviteRead", "joinViaInvite", c, code,
                                         InviteSnap(code)))
            /\ sent' = {}
            /\ last' = Frame("joinViaInvite", c, code)
    /\ UNCHANGED <<memVars, storeVars, now, sideVars>>

\* Lines 801-828: the checks on the invite read, then the membership lookup.
InviteCheck(h) ==
    LET c == h.conn
        s == h.snap
        why == InviteRefusal(now, s)
    IN  /\ h.pc = "inviteRead"
        /\ IF why # Null
           THEN /\ handlers' = Finish(h)
                /\ sent' = ErrorTo(wsState, c, why)
                /\ last' = NoFrame
           ELSE /\ handlers' = Resume(h, "memberRead",
                      [s EXCEPT !.isMember = (<<s.room, UserOf(c)>> \in members)])
                /\ sent' = {}
                /\ last' = NoFrame
        /\ UNCHANGED <<memVars, storeVars, now, sideVars, quota>>

\* handleJoinViaInvite without its already-member rejection.
AlreadyMemberIgnored(s) == FALSE

\* Line 830: the membership lookup found a row.
AlreadyMember(s) == s.isMember

\* Lines 830-841: the already-member rejection, then the invite is marked used.
InviteMark(h) ==
    LET c == h.conn
        s == h.snap
    IN  /\ h.pc = "memberRead"
        /\ IF AlreadyMember(s)
           THEN /\ handlers' = Finish(h)
                /\ sent' = ErrorTo(wsState, c, "alreadyMember")
                /\ last' = NoFrame
                /\ UNCHANGED invites
           ELSE /\ handlers' = Resume(h, "inviteMarked", s)
                /\ invites' = [invites EXCEPT ![h.arg].usedById = UserOf(c)]
                /\ sent' = {}
                /\ last' = NoFrame
        /\ UNCHANGED <<memVars, rooms, members, messages, now, sideVars, quota>>

\* Lines 843-849: prisma.roomMember.create, which throws when the row exists
\* (composite key room x user).
InviteMember(h) ==
    LET c == h.conn
        s == h.snap
        row == <<s.room, UserOf(c)>>
    IN  /\ h.pc = "inviteMarked"
        /\ handlers' = Resume(h, "memberCreated", [s EXCEPT !.ok = (row \notin members)])
        /\ members' = members \cup {row}
        /\ sent' = {}
        /\ last' = NoFrame
        /\ UNCHANGED <<memVars, rooms, invites, messages, now, sideVars, quota>>

\* Lines 851-911: the join effects; a throw of the create is caught by the
\* dispatcher (line 479), which answers "Invalid message format".
InviteJoin(h) ==
    LET c == h.conn
        s == h.snap
        cur == currentRoomId[c]
        left == IF cur # Null THEN LeaveRegistry(activeRooms, c, cur)
                ELSE activeRooms
        ar == JoinRegistry(left, c, s.room, s.name)
    IN  /\ h.pc = "memberCreated"
        /\ handlers' = Finish(h)
        /\ IF ~s.ok
           THEN /\ sent' = ErrorTo(wsState, c, "invalidFormat")
                /\ last' = NoFrame
                /\ UNCHANGED <<activeRooms, currentRoomId>>
           ELSE /\ activeRooms' = ar
                /\ currentRoomId' = [currentRoomId EXCEPT ![c] = s.room]
                /\ sent' = (IF cur # Null
                            THEN LeaveEvents(activeRooms, wsState, c, cur) ELSE {})
                           \cup JoinEvents(ar, wsState, c, s)
                /\ last' = NoFrame
        /\ UNCHANGED <<wsState, userId, connectedUsers, storeVars, now, sideVars, quota>>

\* Time passes.
Tick ==
    /\ now < MaxTime
    /\ now' = now + 1
    /\ sent' = {}
    /\ last' = NoFrame
    /\ UNCHANGED <<memVars, storeVars, sideVars, handlers, quota>>

\* ------------------------------------------- challenge-response (images.ts)
\* CHALLENGE_TIMEOUT (5 minutes), in ticks of the model's clock.
ChallengeTimeout == 1

\* The challenge is older than the timeout (lines 462 and 628 of images.ts:
\* Date.now() - timestamp > CHALLENGE_TIMEOUT).
ChallengeExpired(t, cd) == t - cd.timestamp > ChallengeTimeout

\* cleanupOldChallenges: every expired entry is deleted.
CleanupOldChallenges(ch, t) ==
    [u \in DOMAIN ch |->
        IF ch[u] # NoChallenge /\ ChallengeExpired(t, ch[u]) THEN NoChallenge
        ELSE ch[u]]

\* What an HTTP caller of the two functions gets back: a result or a throw.
AuthReply(type, u, msg) == {Event(0, type, Null, u, msg)}

\* createChallenge(username) up to the await of the user lookup.
CreateChallenge(u) ==
    /\ quota.frames > 0
    /\ quota' = Taken(quota)
    /\ last' = Frame("createChallenge", 0, u)
    /\ handlers' = Spawn(Handler("chUser", "createChallenge", 0, u,
                                 [NoSnap EXCEPT !.found = UserExists(u)]))
    /\ sent' = {}
    /\ UNCHANGED <<memVars, storeVars, now, sideVars>>

\* createChallenge after the lookup: a new random challenge replaces the entry
\* of the username, then the expired entries are cleaned up.
ChallengeStore(h) ==
    LET u == h.arg
        n == challengesIssued + 1
    IN  /\ h.pc = "chUser"
        /\ last' = NoFrame
        /\ handlers' = Finish(h)
        /\ IF ~h.snap.found
           THEN /\ sent' = AuthReply("authError", u, "userNotFound")
                /\ UNCHANGED authVars
           ELSE /\ challengesIssued' = n
                /\ activeChallenges' = CleanupOldChallenges(
                       [activeChallenges EXCEPT
                           ![u] = [challenge |-> n, timestamp |-> now]], now)
                /\ sent' = AuthReply("challenge", u, n)
        /\ UNCHANGED <<memVars, storeVars, now, chatRooms, quota>>

\* The signatures a caller presents: over the challenge stored when the call
\* starts, over something else, or with a public key that is not the user's.
Signatures == {"signed", "badSignature", "badKey"}

\* verifySignature(username, signature, publicKey) up to the await of the user
\* lookup: the entry is read, and deleted when it has expired.
VerifySignature(u, sig) ==
    LET cd == activeChallenges[u]
    IN  /\ quota.frames > 0
        /\ quota' = Taken(quota)
        /\ last' = Frame("verifySignature", 0, u)
        /\ IF cd = NoChallenge
           THEN /\ sent' = AuthReply("authError", u, "noChallenge")
                /\ UNCHANGED <<handlers, authVars>>
           ELSE IF ChallengeExpired(now, cd)
           THEN /\ activeChallenges' = [activeChallenges EXCEPT ![u] = NoChallenge]
                /\ sent' = AuthReply("authError", u, "challengeExpired")
                /\ UNCHANGED <<handlers, challengesIssued>>
           ELSE /\ handlers' = Spawn(Handler("vfUser", "verifySignature", 0, u,
                                 [NoSnap EXCEPT !.name = sig, !.msg = cd.challenge,
                                                !.expiresAt = cd.timestamp]))
                /\ sent' = {}
                /\ UNCHANGED authVars
        /\ UNCHANGED <<memVars, storeVars, now, chatRooms>>

\* verifySignature after the user lookup: the key and the signature are checked
\* against the challenge read before the await (a failure throws and leaves the
\* map alone), then the username's entry is deleted, whatever it holds by now.
VerifyCheck(h) ==
    LET u == h.arg
        s == h.snap
    IN  /\ h.pc = "vfUser"
        /\ last' = NoFrame
        /\ IF s.name # "signed"
           THEN /\ handlers' = Finish(h)
                /\ sent' = AuthReply("authError", u,
                                     IF s.name = "badKey" THEN "keyMismatch"
                                     ELSE "verificationFailed")
                /\ UNCHANGED authVars
           ELSE /\ handlers' = Resume(h, "vfChecked", s)
                /\ activeChallenges' = [activeChallenges EXCEPT ![u] = NoChallenge]
                /\ sent' = {}
                /\ UNCHANGED challengesIssued
        /\ UNCHANGED <<memVars, storeVars, now, chatRooms, quota>>

\* verifySignature after the update of lastSeen: the token is generated.
VerifyFinish(h) ==
    /\ h.pc = "vfChecked"
    /\ last' = NoFrame
    /\ handlers' = Finish(h)
    /\ sent' = AuthReply("token", h.arg, h.snap.msg)
    /\ UNCHANGED <<memVars, storeVars, now, sideVars, quota>>

\* setInterval(cleanupOldChallenges, ...): the timer finds expired entries.
CleanupTimer ==
    /\ CleanupOldChallenges(activeChallenges, now) # activeChallenges
    /\ activeChallenges' = CleanupOldChallenges(activeChallenges, now)
    /\ sent' = {}
    /\ last' = NoFrame
    /\ UNCHANGED <<memVars, storeVars, now, challengesIssued, chatRooms, handlers,
                   quota>>

\* ------------------------------- approval-based variant (unnamed/part_005)
\* The server state of this variant is chatRooms; of the variables above it
\* uses wsState, handlers, quota, sent and last.
serverVars == <<userId, connectedUsers, currentRoomId, activeRooms, storeVars, now,
                authVars>>

\* The sockets of the entries in sequence q.
Sockets(q) == {q[i].ws : i \in 1..Len(q)}

\* wss.on("connection") (lines 58-91): only the listeners are attached.
VariantConnect(c) ==
    /\ wsState[c] = "idle"
    /\ \A d \in Conns : d < c => wsState[d] # "idle"
    /\ quota.conns > 0
    /\ quota' = [quota EXCEPT !.conns = @ - 1]
    /\ wsState' = [wsState EXCEPT ![c] = "open"]
    /\ sent' = {}
    /\ last' = NoFrame
    /\ UNCHANGED <<serverVars, chatRooms, handlers>>

\* broadcastMessage(roomId, "Server", text) up to its await of appendMessage.
ServerNotice(room, who, text) ==
    Handler("appended", "broadcastMessage", 0, room,
            [NoSnap EXCEPT !.room = room, !.name = who, !.target = text])

\* handleDisconnection (lines 258-277): the first room whose users hold the
\* socket loses that entry; pendingRequests are not searched.
VariantClose(c) ==
    LET hit == {r \in DOMAIN chatRooms : c \in Sockets(chatRooms[r].users)}
    IN  /\ wsState[c] = "open"
        /\ wsState' = [wsState EXCEPT ![c] = "closed"]
        /\ sent' = {}
        /\ last' = NoFrame
        /\ IF hit = {}
           THEN UNCHANGED <<chatRooms, handlers>>
           ELSE LET r == CHOOSE x \in hit : TRUE
                    q == chatRooms[r].users
                    i == CHOOSE k \in 1..Len(q) :
                            q[k].ws = c /\ \A j \in 1..(k - 1) : q[j].ws # c
                IN  /\ chatRooms' = [chatRooms EXCEPT ![r].users =
                           SubSeq(q, 1, i - 1) \o SubSeq(q, i + 1, Len(q))]
                    /\ handlers' = Spawn(ServerNotice(r, q[i].username, "left"))
        /\ UNCHANGED <<serverVars, quota>>

\* broadcastMessage after appendMessage (lines 250-255): the message goes to
\* the users the room has by then.
VariantBroadcast(h) ==
    /\ h.pc = "appended"
    /\ last' = NoFrame
    /\ handlers' = Finish(h)
    /\ sent' = IF h.arg \in DOMAIN chatRooms
               THEN {Event(c, "message", h.arg, h.snap.name, h.snap.target) :
                       c \in {x \in Sockets(chatRooms[h.arg].users) :
                                wsState[x] = "open"}}
               ELSE {}
    /\ UNCHANGED <<wsState, serverVars, chatRooms, quota>>

\* promptNextJoinRequest (lines 161-180): the first pending request is shown to
\* the creator when in the room, otherwise to the first user.
PromptNextJoinRequest(ws, r, room) ==
    IF Len(room.pendingRequests) > 0 /\ Len(room.users) > 0
    THEN LET creators == SelectSeq(room.users,
                                   LAMBDA x : x.username = room.creator)
             asked == IF Len(creators) > 0 THEN creators[1] ELSE room.users[1]
         IN  SendTo(ws, asked.ws,
                    Event(asked.ws, "joinRequest", r,
                          room.pendingRequests[1].username, 0))
    ELSE {}

\* The first pending request of username in sequence q, 0 for none.
RequestIndex(q, username) ==
    IF \E k \in 1..Len(q) : q[k].username = username
    THEN CHOOSE k \in 1..Len(q) :
            q[k].username = username /\ \A j \in 1..(k - 1) : q[j].username # username
    ELSE 0

\* approveJoinRequest(roomId, username) (lines 182-204), the room after it.
ApprovedRoom(room, username) ==
    LET q == room.pendingRequests
        i == RequestIndex(q, username)
    IN  IF i = 0 THEN room
        ELSE [room EXCEPT !.pendingRequests =
                              SubSeq(q, 1, i - 1) \o SubSeq(q, i + 1, Len(q)),
                          !.users = Append(@, q[i])]

\* What approveJoinRequest writes: joinApproved to the admitted socket and the
\* next prompt (the join notice is a broadcastMessage, see ServerNotice).
ApproveEvents(ws, r, room, username) ==
    LET i == RequestIndex(room.pendingRequests, username)
    IN  IF i = 0 THEN {}
        ELSE SendTo(ws, room.pendingRequests[i].ws,
                    Event(room.pendingRequests[i].ws, "joinApproved", r, username, 0))
             \cup PromptNextJoinRequest(ws, r, ApprovedRoom(room, username))

\* The joinRoom frame up to the await of roomExists (lines 116-121).
VariantJoinRoom(c, username, r) ==
    /\ wsState[c] = "open"
    /\ quota.frames > 0
    /\ quota' = Taken(quota)
    /\ last' = Frame("variantJoinRoom", c, r)
    /\ handlers' = Spawn(Handler("exists", "variantJoinRoom", c, r,
                                 [NoSnap EXCEPT !.found = (r \in StoredRooms),
                                                !.name = username]))
    /\ sent' = {}
    /\ UNCHANGED <<wsState, serverVars, chatRooms>>

\* joinRoom after roomExists (lines 118-159); every stored room is in memory
\* since loadExistingRooms.  The request is queued, and approved at once when
\* the room has no users.
VariantJoin(h) ==
    LET c == h.conn
        r == h.arg
        username == h.snap.name
    IN  /\ h.pc = "exists"
        /\ last' = NoFrame
        /\ IF ~h.snap.found
           THEN /\ sent' = ErrorTo(wsState, c, "roomDoesNotExist")
                /\ handlers' = Finish(h)
                /\ UNCHANGED chatRooms
           ELSE IF \E i \in 1..Len(chatRooms[r].users) :
                        chatRooms[r].users[i].username = username
           THEN /\ sent' = ErrorTo(wsState, c, "usernameExists")
                /\ handlers' = Finish(h)
                /\ UNCHANGED chatRooms
           ELSE LET queued == [chatRooms[r] EXCEPT !.pendingRequests =
                                  Append(@, [username |-> username, ws |-> c])]
                IN  IF Len(queued.users) = 0
                    THEN /\ chatRooms' = [chatRooms EXCEPT
                                             ![r] = ApprovedRoom(queued, username)]
                         /\ sent' = ApproveEvents(wsState, r, queued, username)
                         /\ handlers' = Finish(h) (+)
                                SetToBag({ServerNotice(r, username, "joined")})
                    ELSE /\ chatRooms' = [chatRooms EXCEPT ![r] = queued]
                         /\ sent' = PromptNextJoinRequest(wsState, r, queued)
                         /\ handlers' = Finish(h)
        /\ UNCHANGED <<wsState, serverVars, quota>>

\* The approveJoin frame (lines 70-72): approveJoinRequest is called with the
\* payload's room and username, whoever sent the frame.
VariantApproveJoin(c, r, username) ==
    /\ wsState[c] = "open"
    /\ quota.frames > 0
    /\ quota' = Taken(quota)
    /\ last' = Frame("approveJoin", c, r)
    /\ IF r \notin DOMAIN chatRooms
          \/ RequestIndex(chatRooms[r].pendingRequests, username) = 0
       THEN /\ sent' = {}
            /\ UNCHANGED <<chatRooms, handlers>>
       ELSE /\ chatRooms' = [chatRooms EXCEPT
                                ![r] = ApprovedRoom(chatRooms[r], username)]
            /\ sent' = ApproveEvents(wsState, r, chatRooms[r], username)
            /\ handlers' = Spawn(ServerNotice(r, username, "joined"))
    /\ UNCHANGED <<wsState, serverVars>>

\* -------------------------------------------------------------- createDM
\* Lines 1096-1113: the dm rooms (deleted or not) that hold membership rows of
\* both users; the store returns them in no stated order and find takes the first.
ExistingDMs(u, t) ==
    {r \in DOMAIN rooms :
        rooms[r].roomType = "dm" /\ <<r, u>> \in members /\ <<r, t>> \in members}

\* The createDM frame up to the await of the target lookup (lines 1074-1088).
CreateDM(c, target) ==
    /\ Accepts(c)
    /\ quota' = Taken(quota)
    /\ last' = Frame("createDM", c, target)
    /\ IF target = Null \/ target = UserOf(c)
       THEN /\ sent' = ErrorTo(wsState, c,
                               IF target = Null THEN "targetRequired" ELSE "selfDM")
            /\ UNCHANGED handlers
       ELSE /\ handlers' = Spawn(Handler("dmTarget", "createDM", c, target,
                                 [NoSnap EXCEPT !.found = UserExists(target)]))
            /\ sent' = {}
    /\ UNCHANGED <<memVars, storeVars, now, sideVars>>

\* Lines 1090-1108: the target must exist; then the caller's dm rooms are read.
DMFind(h) ==
    LET c == h.conn
        s == h.snap
        dms == ExistingDMs(UserOf(c), h.arg)
    IN  /\ h.pc = "dmTarget"
        /\ last' = NoFrame
        /\ IF ~s.found
           THEN /\ handlers' = Finish(h)
                /\ sent' = ErrorTo(wsState, c, "targetNotFound")
           ELSE /\ \E r \in (IF dms = {} THEN {Null} ELSE dms) :
                     handlers' = Resume(h, "dmFound", [s EXCEPT !.room = r])
                /\ sent' = {}
        /\ UNCHANGED <<memVars, storeVars, now, sideVars, quota>>

\* Lines 1115-1147: without an existing dm room one is created with both
\* membership rows; with one, handleJoinRoom is entered at once and runs up to
\* its findFirst.
DMCreate(h) ==
    LET c == h.conn
        s == h.snap
    IN  /\ h.pc = "dmFound"
        /\ last' = NoFrame
        /\ sent' = {}
        /\ IF s.room = Null
           THEN /\ FreshRooms # {}
                /\ LET r == CHOOSE x \in FreshRooms : TRUE
                   IN  /\ rooms' = (r :> [name |-> r, roomType |-> "dm",
                                          creatorId |-> UserOf(c),
                                          deleted |-> FALSE,
                                          encryptedKey |-> NewKey(r)]) @@ rooms
                       /\ members' = members \cup {<<r, UserOf(c)>>, <<r, h.arg>>}
                       /\ handlers' = Resume(h, "dmCreated", [s EXCEPT !.room = r])
           ELSE /\ \E r \in Resolve(s.room, Null) :
                     handlers' = Resume(h, "found", RoomSnap(r, UserOf(c)))
                /\ UNCHANGED <<rooms, members>>
        /\ UNCHANGED <<memVars, invites, messages, now, sideVars, quota>>

\* Line 1147 after the create: handleJoinRoom(user, {roomId: dmRoom.id}) up to
\* its findFirst.
DMJoin(h) ==
    LET c == h.conn
        s == h.snap
    IN  /\ h.pc = "dmCreated"
        /\ last' = NoFrame
        /\ sent' = {}
        /\ \E r \in Resolve(s.room, Null) :
              handlers' = Resume(h, "found", RoomSnap(r, UserOf(c)))
        /\ UNCHANGED <<memVars, storeVars, now, sideVars, quota>>

\* ----------------------------------------------------------- sendMessage
\* handleSendMessage asking only that the sender is in some room.
NotInAnyRoom(cur, r) == cur = Null

\* Line 633: the sender's session must be in the room the frame names.
NotInRoom(cur, r) == cur = Null \/ cur # r

\* prisma.message.create (lines 676-684): the store after an insert that
\* succeeded (ok) or threw.
InsertMessage(ms, ok, r, u, kind) ==
    IF ok THEN Append(ms, [id |-> Len(ms) + 1, roomId |-> r, senderId |-> u,
                           kind |-> kind])
    ELSE ms

\* The sendMessage frame up to its first await (lines 630-684): a text frame
\* awaits the insert, an image frame the upload of the image.
SendMessage(c, r, kind) ==
    /\ Accepts(c)
    /\ quota' = Taken(quota)
    /\ last' = Frame("sendMessage", c, r)
    /\ IF NotInRoom(currentRoomId[c], r)
       THEN /\ sent' = ErrorTo(wsState, c, "notInRoom")
            /\ UNCHANGED <<handlers, messages>>
       ELSE IF kind = "none"
       THEN /\ sent' = ErrorTo(wsState, c, "contentRequired")
            /\ UNCHANGED <<handlers, messages>>
       ELSE IF kind = "image"
       THEN /\ \E ok \in BOOLEAN :
                 handlers' = Spawn(Handler("uploading", "sendMessage", c, r,
                                           [NoSnap EXCEPT !.room = r, !.ok = ok]))
            /\ sent' = {}
            /\ UNCHANGED messages
       ELSE /\ \E ok \in BOOLEAN :
                 /\ messages' = InsertMessage(messages, ok, r, UserOf(c), "text")
                 /\ handlers' = Spawn(Handler("created", "sendMessage", c, r,
                                      [NoSnap EXCEPT !.room = r, !.ok = ok,
                                                     !.msg = Len(messages) + 1]))
            /\ sent' = {}
    /\ UNCHANGED <<memVars, rooms, members, invites, now, sideVars>>

\* Lines 656-684 of an image frame: a refused or failed upload is answered with
\* an error; otherwise the row is inserted.
SendUploaded(h) ==
    LET c == h.conn
        s == h.snap
    IN  /\ h.pc = "uploading"
        /\ last' = NoFrame
        /\ IF ~s.ok
           THEN /\ handlers' = Finish(h)
                /\ sent' = ErrorTo(wsState, c, "uploadFailed")
                /\ UNCHANGED messages
           ELSE /\ \E ok \in BOOLEAN :
                     /\ messages' = InsertMessage(messages, ok, h.arg, UserOf(c),
                                                  "image")
                     /\ handlers' = Resume(h, "created",
                                      [s EXCEPT !.ok = ok, !.msg = Len(messages) + 1])
                /\ sent' = {}
        /\ UNCHANGED <<memVars, rooms, members, invites, now, sideVars, quota>>

\* handleSendMessage broadcasting whatever the insert returned.
MessageEventsUnchecked(ar, ws, c, s) ==
    BroadcastToRoom(ar, ws, s.room, "message", UserOf(c), s.msg, 0)

\* What handleSendMessage writes once the insert has returned (lines 686-699),
\* or the dispatcher's answer to its throw (line 479).
MessageEvents(ar, ws, c, s) ==
    IF s.ok THEN BroadcastToRoom(ar, ws, s.room, "message", UserOf(c), s.msg, 0)
    ELSE ErrorTo(ws, c, "invalidFormat")

SendFinish(h) ==
    /\ h.pc = "created"
    /\ last' = NoFrame
    /\ sent' = MessageEvents(activeRooms, wsState, h.conn, h.snap)
    /\ handlers' = Finish(h)
    /\ UNCHANGED <<memVars, storeVars, now, sideVars, quota>>

\* --------------------------------------------------------------- dispatch
\* The frames the dispatcher answers itself (lines 410-419, 474-482): text that
\* JSON.parse rejects, a message without a type, a type the switch does not know.
BadKinds == {"notJson", "noType", "unknownType"}

DispatchError(kind) ==
    IF kind = "notJson" THEN "invalidFormat"
    ELSE IF kind = "noType" THEN "missingType"
    ELSE "unknownType"

\* A frame of kind k on connection c; `last` records the kind as the type.
BadFrame(c, k) ==
    /\ Accepts(c)
    /\ quota' = Taken(quota)
    /\ last' = Frame(k, c, Null)
    /\ sent' = ErrorTo(wsState, c, DispatchError(k))
    /\ UNCHANGED <<memVars, storeVars, now, sideVars, handlers>>

\* The typing frame: handleTyping (lines 704-719), which has no await.  Outside
\* the room named, and without roomId, it returns at once.
Typing(c, r) ==
    /\ Accepts(c)
    /\ quota' = Taken(quota)
    /\ last' = Frame("typing", c, r)
    /\ sent' = IF NotInRoom(currentRoomId[c], r) THEN {}
               ELSE BroadcastToRoom(activeRooms, wsState, r, "userTyping",
                                    UserOf(c), 0, c)
    /\ UNCHANGED <<memVars, storeVars, now, sideVars, handlers>>

\* ------------------------------------------------------------------- Next
Connects == \E c \in Conns, u \in TokenUsers : Connect(c, u)
Closes == \E c \in Conns : Close(c)

GuestSteps ==
    \/ \E c \in Conns : ConnectGuest(c)
    \/ \E h \in InFlight : GuestRegister(h)

JoinSteps ==
    \/ \E c \in Conns, r \in RoomIds \cup {Null} : JoinRoom(c, r, Null)
    \/ \E h \in InFlight : JoinCheck(h)
    \/ \E h \in InFlight : JoinFinish(h)

LeaveSteps == \E c \in Conns, r \in RoomIds \cup {Null} : LeaveRoom(c, r)

DeleteSteps ==
    \/ \E c \in Conns, r \in RoomIds \cup {Null} : DeleteRoom(c, r)
    \/ \E h \in InFlight : DeleteCheck(h)
    \/ \E h \in InFlight : DeleteFinish(h)

InviteSteps ==
    \/ \E c \in Conns, i \in Codes \cup {"I0", Null} : JoinViaInvite(c, i)
    \/ \E h \in InFlight : InviteCheck(h)
    \/ \E h \in InFlight : InviteMark(h)
    \/ \E h \in InFlight : InviteMember(h)
    \/ \E h \in InFlight : InviteJoin(h)

DMSteps ==
    \/ \E c \in Conns, t \in TokenUsers \cup {"ghost", Null} : CreateDM(c, t)
    \/ \E h \in InFlight : DMFind(h)
    \/ \E h \in InFlight : DMCreate(h)
    \/ \E h \in InFlight : DMJoin(h)

CreateInviteSteps ==
    \/ \E c \in Conns, r \in RoomIds \cup {Null} : CreateInvite(c, r)
    \/ \E h \in InFlight : CreateInviteCheck(h)
    \/ \E h \in InFlight : CreateInviteFinish(h)

BadSteps == \E c \in Conns, k \in BadKinds : BadFrame(c, k)

TypingSteps == \E c \in Conns, r \in RoomIds \cup {Null} : Typing(c, r)

\* The payloads of the frames with two fields: every pair of present fields,
\* and one payload that fails the validation.
RenamePayloads == (RoomIds \X Names) \cup {<<Null, Null>>}
CreatePayloads ==
    (Names \X {"public", "private"}) \cup {<<Null, "public">>, <<"lobby", Null>>}
TransferPayloads == (RoomIds \X (TokenUsers \cup {"ghost"})) \cup {<<Null, Null>>}

RenameSteps ==
    \/ \E c \in Conns, p \in RenamePayloads : RenameRoom(c, p[1], p[2])
    \/ \E h \in InFlight : RenameCheck(h)
    \/ \E h \in InFlight : RenameUpdate(h)
    \/ \E h \in InFlight : RenameFinish(h)

CreateSteps ==
    \/ \E c \in Conns, p \in CreatePayloads : CreateRoom(c, p[1], p[2])
    \/ \E h \in InFlight : CreateArchive(h)
    \/ \E h \in InFlight : CreateInsert(h)
    \/ \E h \in InFlight : CreateMember(h)
    \/ \E h \in InFlight : CreateFinish(h)

ListSteps ==
    \/ \E c \in Conns : ListRooms(c)
    \/ \E h \in InFlight : ListPrivate(h)
    \/ \E h \in InFlight : ListFinish(h)

TransferSteps ==
    \/ \E c \in Conns, p \in TransferPayloads : TransferOwnership(c, p[1], p[2])
    \/ \E h \in InFlight : TransferCheck(h)
    \/ \E h \in InFlight : TransferUpdate(h)
    \/ \E h \in InFlight : TransferMember(h)
    \/ \E h \in InFlight : TransferFinish(h)

SendSteps ==
    \/ \E c \in Conns, r \in RoomIds, k \in {"text", "image", "none"} :
          SendMessage(c, r, k)
    \/ \E h \in InFlight : SendUploaded(h)
    \/ \E h \in InFlight : SendFinish(h)

\* The membership engine: every operation that touches a roster.
Next ==
    \/ Connects
    \/ Closes
    \/ JoinSteps
    \/ LeaveSteps
    \/ DeleteSteps
    \/ InviteSteps
    \/ DMSteps

Spec == Init /\ [][Next]_vars

\* Message fan-out: sendMessage with the joins, leaves and deletions around it.
NextMsg ==
    \/ Connects
    \/ Closes
    \/ JoinSteps
    \/ LeaveSteps
    \/ DeleteSteps
    \/ SendSteps

InitMsg == Boot /\ quota = Budget(MsgFrames, NumConns)

SpecMsg == InitMsg /\ [][NextMsg]_vars

\* Private rooms: joins by id or name and invite redemption.
NextInvite ==
    \/ Connects
    \/ Closes
    \/ JoinSteps
    \/ InviteSteps

InitInvite == Boot /\ quota = Budget(InviteFrames, NumConns)

SpecInvite == InitInvite /\ [][NextInvite]_vars

\* The same with u1 already a member of the private room R2.
InitMember ==
    /\ Booted(InitialMembers \cup {<<"R2", "u1">>})
    /\ quota = Budget(InviteFrames, NumConns)

SpecMember == InitMember /\ [][NextInvite]_vars

\* Invite redemption with the clock.
NextClock ==
    \/ Connects
    \/ Closes
    \/ InviteSteps
    \/ Tick

SpecClock == Init /\ [][NextClock]_vars

\* Ownership: the three operations of the owner, with joins for live rosters.
NextOwner ==
    \/ Connects
    \/ Closes
    \/ JoinSteps
    \/ RenameSteps
    \/ DeleteSteps
    \/ TransferSteps

InitOwner == Boot /\ quota = Budget(OwnerFrames, NumConns)

SpecOwner == InitOwner /\ [][NextOwner]_vars

\* Room names: creation, renaming and deletion.
NextNames ==
    \/ Connects
    \/ Closes
    \/ CreateSteps
    \/ RenameSteps
    \/ DeleteSteps

SpecReuse == Init /\ [][NextNames]_vars

\* Room lists against creation and deletion; u1 is a member of R2, u2 is not.
NextList ==
    \/ Connects
    \/ Closes
    \/ CreateSteps
    \/ DeleteSteps
    \/ ListSteps

InitList ==
    /\ Booted(InitialMembers \cup {<<"R2", "u1">>})
    /\ quota = Budget(ListFrames, NumConns)

SpecList == InitList /\ [][NextList]_vars

\* Joins against sends, over a store that already holds as many messages of R1
\* as a join includes, and one of R2 between them.
InitialMessages ==
    <<[id |-> 1, roomId |-> "R1", senderId |-> "u1", kind |-> "text"],
      [id |-> 2, roomId |-> "R2", senderId |-> "u0", kind |-> "text"],
      [id |-> 3, roomId |-> "R1", senderId |-> "u1", kind |-> "image"]>>

NextHistory ==
    \/ Connects
    \/ Closes
    \/ JoinSteps
    \/ SendSteps

InitHistory ==
    /\ Stored(InitialMembers, InitialMessages)
    /\ quota = Budget(HistoryFrames, NumConns)

SpecHistory == InitHistory /\ [][NextHistory]_vars

\* A handler suspended at a store operation is resumed when the store answers.
HistoryResumes ==
    \E h \in InFlight :
        JoinCheck(h) \/ JoinFinish(h) \/ SendUploaded(h) \/ SendFinish(h)

\* The same where the store answers every operation: no handler stays suspended
\* for ever.  Clients are not obliged to do anything.
SpecHistoryLive == SpecHistory /\ WF_vars(HistoryResumes)

\* Invites made by members and by others, with joins that make members, while
\* time passes.
NextGrant ==
    \/ Connects
    \/ Closes
    \/ JoinSteps
    \/ CreateInviteSteps
    \/ Tick

InitGrant == Boot /\ quota = Budget(GrantFrames, NumConns)

SpecGrant == InitGrant /\ [][NextGrant]_vars

\* The process from its start (httpServer.listen, lines 1361-1366, runs when the
\* module is loaded), with a store that can or cannot be reached, and the
\* frames that touch no store.
NextStart ==
    \/ Connects
    \/ Closes
    \/ BadSteps
    \/ TypingSteps
    \/ LeaveSteps

InitStart ==
    /\ Boot
    /\ \E up \in BOOLEAN :
         quota = [Budget(DispatchFrames, NumConns) EXCEPT !.storeReached = up]

SpecStart == InitStart /\ [][NextStart]_vars

\* Clients with and without a token, joining and leaving rooms.
NextGuest ==
    \/ Connects
    \/ GuestSteps
    \/ Closes
    \/ JoinSteps
    \/ LeaveSteps

InitGuest ==
    /\ Boot
    /\ quota = Budget(GuestFrames, NumConns)

SpecGuest == InitGuest /\ [][NextGuest]_vars

\* Sessions that join rooms and send text to them.
NextOrder ==
    \/ Connects
    \/ \E c \in Conns, r \in RoomIds : JoinRoom(c, r, Null)
    \/ \E h \in InFlight : JoinCheck(h)
    \/ \E h \in InFlight : JoinFinish(h)
    \/ \E c \in Conns, r \in RoomIds : SendMessage(c, r, "text")
    \/ \E h \in InFlight : SendFinish(h)

InitOrder ==
    /\ Boot
    /\ quota = Budget(OrderFrames, NumConns)

SpecOrder == InitOrder /\ [][NextOrder]_vars

\* Direct-message rooms that are made, deleted and asked for again.
NextDM ==
    \/ Connects
    \/ Closes
    \/ DMSteps
    \/ \E h \in InFlight : JoinCheck(h)
    \/ \E h \in InFlight : JoinFinish(h)
    \/ DeleteSteps

InitDM ==
    /\ Boot
    /\ quota = Budget(DMFrames, NumConns)

SpecDM == InitDM /\ [][NextDM]_vars

\* Rooms that are joined, deleted and sent to.
NextPurge ==
    \/ Connects
    \/ Closes
    \/ JoinSteps
    \/ DeleteSteps
    \/ SendSteps

InitPurge ==
    /\ Boot
    /\ quota = Budget(PurgeFrames, NumConns)

SpecPurge == InitPurge /\ [][NextPurge]_vars

\* Direct-message rooms with any user, and joins by id.
NextPair ==
    \/ Connects
    \/ Closes
    \/ \E c \in Conns, t \in Users : CreateDM(c, t)
    \/ \E h \in InFlight : DMFind(h)
    \/ \E h \in InFlight : DMCreate(h)
    \/ \E h \in InFlight : DMJoin(h)
    \/ JoinSteps

InitPair ==
    /\ Boot
    /\ quota = Budget(PairFrames, NumConns)

SpecPair == InitPair /\ [][NextPair]_vars

\* Logins by challenge and response.
AuthSteps ==
    \/ \E u \in TokenUsers \cup {"ghost"} : CreateChallenge(u)
    \/ \E h \in InFlight : ChallengeStore(h)
    \/ \E u \in TokenUsers, sig \in Signatures : VerifySignature(u, sig)
    \/ \E h \in InFlight : VerifyCheck(h)
    \/ \E h \in InFlight : VerifyFinish(h)
    \/ CleanupTimer

NextAuth ==
    \/ AuthSteps
    \/ Tick

InitAuth ==
    /\ Boot
    /\ quota = Budget(AuthFrames, NumConns)

SpecAuth == InitAuth /\ [][NextAuth]_vars

\* The approval-based variant: requests to join and approvals.
NextVariant ==
    \/ \E c \in Conns : VariantConnect(c)
    \/ \E c \in Conns : VariantClose(c)
    \/ \E c \in Conns, u \in TokenUsers, r \in StoredRooms \cup {"V0"} :
          VariantJoinRoom(c, u, r)
    \/ \E h \in InFlight : VariantJoin(h)
    \/ \E c \in Conns, u \in TokenUsers, r \in StoredRooms \cup {"V0"} :
          VariantApproveJoin(c, r, u)
    \/ \E h \in InFlight : VariantBroadcast(h)

InitVariant ==
    /\ Boot
    /\ quota = Budget(VariantFrames, NumConns)

SpecVariant == InitVariant /\ [][NextVariant]_vars

\* Every frame the dispatcher takes.
NextDispatch ==
    \/ Connects
    \/ Closes
    \/ BadSteps
    \/ TypingSteps
    \/ JoinSteps
    \/ LeaveSteps
    \/ SendSteps
    \/ CreateSteps
    \/ ListSteps
    \/ CreateInviteSteps
    \/ InviteSteps
    \/ RenameSteps
    \/ DeleteSteps
    \/ TransferSteps
    \/ DMSteps

InitDispatch == Boot /\ quota = Budget(DispatchFrames, NumConns)

SpecDispatch == InitDispatch /\ [][NextDispatch]_vars

\* Joins, leaves and closes of three connections.
NextRace ==
    \/ Connects
    \/ Closes
    \/ JoinSteps
    \/ LeaveSteps

InitRace == Boot /\ quota = Budget(RaceFrames, RaceConns)

SpecRace == InitRace /\ [][NextRace]_vars

\* ----------------------------------------------------------------- claims
\* The sessions in the roster of active room r.
Roster(r) == Range(activeRooms[r].users)

RosterOf(ar, r) == IF r \in DOMAIN ar THEN Range(ar[r].users) ELSE {}

\* The active rooms whose roster holds session c.
RoomsOf(c) == {r \in DOMAIN activeRooms : c \in Roster(r)}

\* Handler h ran in this step: it left the bag or moved on.
Stepped(h) == CopiesIn(h, handlers') < CopiesIn(h, handlers)

\* C1: every session is in at most one roster, and a session in the roster of
\* room r has currentRoomId = r.
C1_OneRosterIsCurrentRoom ==
    \A c \in connectedUsers :
        /\ Cardinality(RoomsOf(c)) <= 1
        /\ \A r \in RoomsOf(c) : currentRoomId[c] = r

\* C2: a session whose currentRoomId is R is in the roster of R, which is
\* registered.
C2_CurrentRoomHoldsSession ==
    \A c \in connectedUsers :
        currentRoomId[c] # Null =>
            /\ currentRoomId[c] \in DOMAIN activeRooms
            /\ c \in Roster(currentRoomId[c])

\* C3: a session's currentRoomId is null exactly when it is in no roster.
C3_NullIffInNoRoster ==
    \A c \in connectedUsers : (currentRoomId[c] = Null) <=> (RoomsOf(c) = {})

\* C4: every registered ActiveRoom has a non-empty roster.
C4_NoEmptyRoster ==
    \A r \in DOMAIN activeRooms : Len(activeRooms[r].users) > 0

\* C4, its case: a leave has just removed the last session of a room, and the
\* room left the registry in that step.
C4_Witness ==
    \E e \in sent : e.type = "logRoomRemoved" /\ e.room \notin DOMAIN activeRooms

C6_SendOutsideRoomRejected ==
    [][(/\ quota' = Taken(quota)
        /\ last'.type = "sendMessage"
        /\ currentRoomId[last'.conn] # last'.arg)
       => /\ messages' = messages
          /\ handlers' = handlers
          /\ sent' = {Event(last'.conn, "error", Null, Null, "notInRoom")}]_vars

\* C6, its case: a member of the room named, whose session is not in it, was
\* refused.
C6_Witness ==
    /\ last.type = "sendMessage"
    /\ <<last.arg, UserOf(last.conn)>> \in members
    /\ currentRoomId[last.conn] # last.arg
    /\ Event(last.conn, "error", Null, Null, "notInRoom") \in sent

\* C7: a joinRoom that found a private room without a membership row of the
\* caller ends with an access error at most: no membership row, no roster or
\* currentRoomId change, no roomJoined.
C7_PrivateJoinDenied ==
    [][\A h \in InFlight :
         (/\ h.pc = "found"
          /\ h.snap.found
          /\ h.snap.roomType = "private"
          /\ ~h.snap.isMember
          /\ Stepped(h))
         => /\ handlers' = Finish(h)
            /\ members' = members
            /\ activeRooms' = activeRooms
            /\ currentRoomId' = currentRoomId
            /\ sent' = IF wsState[h.conn] = "open"
                       THEN {Event(h.conn, "error", Null, Null, "accessDenied")}
                       ELSE {}]_vars

\* C7, its case: a session that is in a room was denied a private room.
C7_Witness ==
    \E e \in sent :
        /\ e.type = "error"
        /\ e.msg = "accessDenied"
        /\ currentRoomId[e.to] # Null
        /\ e.to \in Roster(currentRoomId[e.to])

\* C8: at most one identity obtains a membership through an invite code.  The
\* room of the invite is private, so a membership row that the store did not
\* start with was created by a redemption.
C8_InviteRedeemedOnce ==
    \A i \in DOMAIN invites :
        Cardinality({u \in Users :
                        /\ <<invites[i].roomId, u>> \in members
                        /\ <<invites[i].roomId, u>> \notin InitialMembers}) <= 1

\* C9: the session of a closed connection is in no roster.
C9_ClosedSessionInNoRoster ==
    \A c \in Conns : wsState[c] = "closed" => RoomsOf(c) = {}

\* C10: when deleteRoom(R) completes, R is soft-deleted and out of the registry,
\* every open roster member was sent roomDeleted, no session has currentRoomId R,
\* and sessions and sockets are as before.
C10_DeleteEvictsMembers ==
    [][\A h \in InFlight :
         (h.pc = "delMarked" /\ Stepped(h))
         => /\ rooms'[h.arg].deleted
            /\ h.arg \notin DOMAIN activeRooms'
            /\ h.arg \in DOMAIN activeRooms =>
                 \A c \in Roster(h.arg) :
                    wsState[c] = "open" =>
                        Event(c, "roomDeleted", h.arg, Null, 0) \in sent'
            /\ \A c \in connectedUsers' : currentRoomId'[c] # h.arg
            /\ connectedUsers' = connectedUsers
            /\ wsState' = wsState]_vars

\* C13: a leaveRoom frame from a session that is in no room (no currentRoomId,
\* in no roster) changes no roster and delivers no userLeft, whatever room it
\* names.
C13_LeaveOutsideRoomIsNoOp ==
    [][(/\ quota' = Taken(quota)
        /\ last'.type = "leaveRoom"
        /\ currentRoomId[last'.conn] = Null
        /\ RoomsOf(last'.conn) = {})
       => /\ activeRooms' = activeRooms
          /\ \A e \in sent' : e.type # "userLeft"]_vars

\* Session a, in the roster of room r, leaves r in this step: by a leaveRoom
\* frame that names r, or by the close of its connection while r is its room.
Leaves(a, r) ==
    /\ r \in DOMAIN activeRooms
    /\ a \in Roster(r)
    /\ \/ /\ quota' = Taken(quota)
          /\ last' = Frame("leaveRoom", a, r)
       \/ /\ wsState[a] = "open"
          /\ wsState'[a] = "closed"
          /\ a \in connectedUsers
          /\ currentRoomId[a] = r

\* C14: when session a leaves room r, the roster loses a and nobody else, each
\* remaining session with an open connection is sent userLeft naming a (once:
\* a roster holds no session twice), no other userLeft is sent, a gets none,
\* and r leaves the registry in that step when nobody remains.
C14_LeaveNotifiesOthers ==
    [][\A a \in Conns, r \in DOMAIN activeRooms :
         Leaves(a, r) =>
            LET remain == Roster(r) \ {a}
            IN  /\ Len(activeRooms[r].users) = Cardinality(Roster(r))
                /\ RosterOf(activeRooms', r) = remain
                /\ (remain = {}) <=> (r \notin DOMAIN activeRooms')
                /\ {e \in sent' : e.type = "userLeft"} =
                      {Event(x, "userLeft", r, UserOf(a), 0) :
                         x \in {y \in remain : wsState'[y] = "open"}}]_vars

\* C14, its case: a connection closed while in a room, and a session that
\* remains in that room's roster was sent the userLeft naming it.
C14_Witness ==
    \E e \in sent, a \in Conns :
        /\ e.type = "userLeft"
        /\ wsState[a] = "closed"
        /\ UserOf(a) = e.who
        /\ e.to # a
        /\ e.to \in RosterOf(activeRooms, e.room)

\* C15: a room is evicted only in a step in which it leaves the registry (so
\* once per activation), and a joinRoom that attaches to a room with two other
\* sessions as its sole members ends with the joiner in the roster registered
\* under that room.
C15_JoinAttachesToRegisteredRoom ==
    [][/\ \A e \in sent' :
             e.type = "logRoomRemoved" =>
                 e.room \in DOMAIN activeRooms /\ e.room \notin DOMAIN activeRooms'
       /\ \A h \in InFlight :
             (/\ h.pc = "upserted"
              /\ Stepped(h)
              /\ Cardinality(RosterOf(activeRooms, h.snap.room) \ {h.conn}) = 2)
             => h.conn \in RosterOf(activeRooms', h.snap.room)]_vars

\* C16: a joinViaInvite of an identity that has a membership row in the
\* invite's room when the handler looks for it goes on to the already-member
\* rejection, and that rejection is an error and nothing else: the invite and
\* the membership rows are as before, no roster and no currentRoomId changes.
C16_AlreadyMemberRejected ==
    [][\A h \in InFlight :
         (Stepped(h) /\ h.op = "joinViaInvite") =>
            /\ (/\ h.pc = "inviteRead"
                /\ InviteRefusal(now, h.snap) = Null
                /\ <<h.snap.room, UserOf(h.conn)>> \in members)
               => /\ handlers' = Resume(h, "memberRead",
                                        [h.snap EXCEPT !.isMember = TRUE])
                  /\ sent' = {}
                  /\ UNCHANGED <<storeVars, activeRooms, currentRoomId>>
            /\ (h.pc = "memberRead" /\ h.snap.isMember)
               => /\ handlers' = Finish(h)
                  /\ sent' = IF wsState[h.conn] = "open"
                             THEN {Event(h.conn, "error", Null, Null, "alreadyMember")}
                             ELSE {}
                  /\ UNCHANGED <<storeVars, activeRooms, currentRoomId>>]_vars

\* C16, its case: a member from the start was refused and the invite is still
\* unused.
C16_Witness ==
    \E e \in sent :
        /\ e.type = "error"
        /\ e.msg = "alreadyMember"
        /\ <<"R2", UserOf(e.to)>> \in members
        /\ \A i \in DOMAIN invites : invites[i].usedById = Null

\* C17: a redemption handled at or after the invite's expiresAt is refused as
\* expired, and one whose invite is already used is refused with an error; a
\* refusal changes nothing in the store or the registries.
C17_ExpiryInstantRejected ==
    [][\A h \in InFlight :
         (Stepped(h) /\ h.pc = "inviteRead" /\ h.snap.found) =>
            /\ now >= h.snap.expiresAt
               => /\ handlers' = Finish(h)
                  /\ sent' = IF wsState[h.conn] = "open"
                             THEN {Event(h.conn, "error", Null, Null, "expired")}
                             ELSE {}
                  /\ UNCHANGED <<storeVars, activeRooms, currentRoomId>>
            /\ h.snap.usedById # Null
               => /\ handlers' = Finish(h)
                  /\ \A e \in sent' : e.type = "error"
                  /\ UNCHANGED <<storeVars, activeRooms, currentRoomId>>]_vars

\* The dm rooms that hold membership rows of both a and b.
DMRoomsOf(a, b) ==
    {r \in DOMAIN rooms :
        rooms[r].roomType = "dm" /\ <<r, a>> \in members /\ <<r, b>> \in members}

\* C20: two distinct identities share at most one dm room, and a createDM that
\* targets the requester is refused without a room, a membership row or a
\* handler.
C20_OneDMRoomPerPair ==
    /\ [](\A a \in Users, b \in Users :
             a # b => Cardinality(DMRoomsOf(a, b)) <= 1)
    /\ [][(/\ quota' = Taken(quota)
           /\ last'.type = "createDM"
           /\ last'.arg = UserOf(last'.conn))
          => /\ UNCHANGED <<storeVars, handlers>>
             /\ sent' = {Event(last'.conn, "error", Null, Null, "selfDM")}]_vars

\* C11: a renameRoom, deleteRoom or transferOwnership whose requester is not the
\* creator of the room it read is refused with an error and changes neither the
\* store nor the registry; such a handler writes the room's row only while the
\* requester is the room's creator; the write of a transfer makes the target
\* the creator, and a finished transfer leaves the target with a membership row.
C11_OnlyOwnerChangesRoom ==
    [][\A h \in InFlight :
         (Stepped(h) /\ h.op \in {"renameRoom", "deleteRoom", "transferOwnership"}) =>
            /\ (/\ h.pc \in {"renFound", "delFound", "trFound"}
                /\ h.snap.found
                /\ h.snap.creatorId # UserOf(h.conn))
               => /\ handlers' = Finish(h)
                  /\ sent' = IF wsState[h.conn] = "open"
                             THEN {Event(h.conn, "error", Null, Null, "notOwner")}
                             ELSE {}
                  /\ UNCHANGED <<storeVars, activeRooms>>
            /\ rooms' # rooms => rooms[h.arg].creatorId = UserOf(h.conn)
            /\ (h.pc = "trTarget" /\ h.snap.ok)
               => rooms'[h.arg].creatorId = h.snap.target
            /\ h.pc = "trUpserted" => <<h.arg, h.snap.target>> \in members']_vars

\* The rooms that are not deleted and are named n.
LiveRoomsNamed(n) == {r \in DOMAIN rooms : ~rooms[r].deleted /\ rooms[r].name = n}

C19_DeletedNameIsFree ==
    [][\A h \in InFlight :
         (/\ Stepped(h)
          /\ h.pc \in {"crNameRead", "renNameRead"}
          /\ h.snap.holder = Null \/ h.snap.holderDeleted)
         => \A e \in sent' : e.type = "error" => e.msg # "nameTaken"]_vars

\* Handler g was put into the bag, or moved to, in this step.
Started(g) == CopiesIn(g, handlers') > CopiesIn(g, handlers)

\* The rooms of the list named key in the roomsList written in this step.
Listed(key) == {e.room : e \in {x \in sent' : x.type = "listedRoom" /\ x.who = key}}

\* C12: each query of listRooms returns, of the store it reads, exactly the
\* public rooms that are not deleted, and exactly the private and dm rooms that
\* are not deleted and have a membership row of the requester; the roomsList
\* written to the requester holds the rooms of the two queries and no other.
C12_RoomsListIsFiltered ==
    [][/\ (quota' = Taken(quota) /\ last'.type = "listRooms")
          => \E g \in BagToSet(handlers') :
                /\ Started(g)
                /\ g.conn = last'.conn
                /\ DOMAIN g.snap.publicRooms =
                      {r \in DOMAIN rooms :
                          rooms[r].roomType = "public" /\ ~rooms[r].deleted}
       /\ \A h \in InFlight : (Stepped(h) /\ h.pc = "listPublic")
          => \E g \in BagToSet(handlers') :
                /\ Started(g)
                /\ g.conn = h.conn
                /\ g.snap.publicRooms = h.snap.publicRooms
                /\ \A r \in DOMAIN rooms :
                      r \in DOMAIN g.snap.privateRooms
                         <=> /\ rooms[r].roomType # "public"
                             /\ ~rooms[r].deleted
                             /\ <<r, UserOf(h.conn)>> \in members
       /\ \A h \in InFlight : (Stepped(h) /\ h.pc = "listPrivate")
          => /\ \A e \in sent' : e.to = h.conn
             /\ wsState[h.conn] = "open" =>
                  /\ \E e \in sent' : e.type = "roomsList" /\ e.who = UserOf(h.conn)
                  /\ Listed("publicRooms") = DOMAIN h.snap.publicRooms
                  /\ Listed("privateRooms") = DOMAIN h.snap.privateRooms
                  /\ \A e \in sent' : e.type \in {"roomsList", "listedRoom"}]_vars

\* u1 receives a list that holds the private room it is a member of and not
\* the deleted public room.
C12_Witness ==
    /\ rooms["R1"].deleted
    /\ \E e \in sent : e.type = "roomsList" /\ e.who = "u1"
    /\ {e.room : e \in {x \in sent : x.type = "listedRoom"}} = {"R2"}

\* The ids of the rows of room r, in insertion order.
RoomMessageIds(r) ==
    LET rows == SelectSeq(messages, LAMBDA m : m.roomId = r)
    IN  [i \in 1..Len(rows) |-> rows[i].id]

\* The last k entries of sequence q (all of q when it has fewer).
LastOf(q, k) == IF Len(q) <= k THEN q ELSE SubSeq(q, Len(q) - k + 1, Len(q))

\* C21: the lookup of a join includes the newest HistoryTake message rows of
\* the room it found, newest first, or all of them when there are fewer; a join
\* that completes writes to its open caller one roomJoined with the room's key
\* and the included rows oldest first, one userJoined to every other open
\* session of the room's roster, and no userJoined to the caller.
C21_JoinedCarriesKeyAndHistory ==
    [][/\ (quota' = Taken(quota) /\ last'.type = "joinRoom")
          => \A g \in BagToSet(handlers') : (Started(g) /\ g.snap.found)
                => LET want == LastOf(RoomMessageIds(g.snap.room), HistoryTake)
                   IN  /\ Len(g.snap.messages) = Len(want)
                       /\ \A i \in 1..Len(want) :
                             g.snap.messages[i].id = want[Len(want) + 1 - i]
       /\ \A h \in InFlight : (Stepped(h) /\ h.pc = "upserted")
          => LET c == h.conn
                 r == h.snap.room
                 joined == {e \in sent' : e.type = "roomJoined"}
                 n == Len(h.snap.messages)
             IN  /\ wsState[c] = "open"
                    => /\ Cardinality(joined) = 1
                       /\ \A e \in joined :
                            /\ e.to = c
                            /\ e.room = r
                            /\ e.msg.encryptedKey =
                                 (IF rooms[r].encryptedKey = Null THEN ""
                                  ELSE rooms[r].encryptedKey)
                            /\ Len(e.msg.messages) = n
                            /\ \A i \in 1..n :
                                 e.msg.messages[i] = h.snap.messages[n + 1 - i].id
                 /\ wsState[c] # "open" => joined = {}
                 /\ LET others == {e \in sent' : e.type = "userJoined"}
                    IN  /\ {e.to : e \in others}
                             = {y \in RosterOf(activeRooms', r) \ {c} :
                                  wsState[y] = "open"}
                        /\ \A e \in others : e.room = r /\ e.who = UserOf(c)
                        /\ \A e \in others, f \in others : e.to = f.to => e = f
                        /\ Len(activeRooms'[r].users)
                             = Cardinality(RosterOf(activeRooms', r))]_vars

\* A join of a room with more messages than a join includes, one of them sent
\* in this run: the caller gets the two newest, another session the userJoined.
C21_Witness ==
    \E e \in sent :
        /\ e.type = "roomJoined"
        /\ e.room = "R1"
        /\ e.msg.messages = <<3, 4>>
        /\ e.msg.encryptedKey = "key-R1"
        /\ \E f \in sent : f.type = "userJoined" /\ f.to # e.to

\* Sequence q names no element twice.
NoRepeat(q) == \A i \in 1..Len(q), j \in 1..Len(q) : q[i] = q[j] => i = j

\* C22: whatever the registry, a broadcast to room r with x excluded writes
\* once to each open session of r's roster other than x and to nothing else,
\* and writes nothing when r is not registered; a step that broadcasts a
\* message writes it to exactly those sessions.
C22_BroadcastReachesOpenRoster ==
    /\ [](\A r \in RoomIds \cup NewIds, x \in Conns \cup {0} :
            LET q == Recipients(activeRooms, wsState, r, x)
            IN  /\ NoRepeat(q)
                /\ Range(q) = {c \in RosterOf(activeRooms, r) :
                                 c # x /\ wsState[c] = "open"}
                /\ r \notin DOMAIN activeRooms
                     => BroadcastToRoom(activeRooms, wsState, r, "message", Null, 0, x)
                          = {})
    /\ [][\A h \in InFlight : (Stepped(h) /\ h.pc = "created" /\ h.snap.ok)
            => /\ {e.to : e \in sent'}
                    = {c \in RosterOf(activeRooms, h.snap.room) : wsState[c] = "open"}
               /\ \A e \in sent' : e.type = "message" /\ e.room = h.snap.room]_vars

\* A message written to a session whose roster holds a closed session before it.
C22_Witness ==
    \E e \in sent :
        /\ e.type = "message"
        /\ e.room \in DOMAIN activeRooms
        /\ LET us == activeRooms[e.room].users
           IN  \E i \in 1..Len(us), j \in 1..Len(us) :
                  i < j /\ wsState[us[i]] = "closed" /\ us[j] = e.to

\* The frame types whose handler requires a field that `arg` records.
NeedsField ==
    {"joinRoom", "leaveRoom", "typing", "createRoom", "createInvite", "joinViaInvite",
     "renameRoom", "deleteRoom", "transferOwnership", "createDM"}

\* The frame dispatched in this step is malformed: the dispatcher rejects it,
\* or it lacks the field its handler requires.
Malformed ==
    /\ quota' = Taken(quota)
    /\ \/ last'.type \in BadKinds
       \/ last'.type \in NeedsField /\ last'.arg = Null

\* C23: a malformed frame is answered with one error, written to its own
\* connection, and changes nothing else: no socket state, no registry entry, no
\* roster, no current room, no row of the store, no handler.
C23_MalformedFrameOnlyErrors ==
    [][Malformed
         => /\ \E e \in sent' : e.type = "error" /\ e.to = last'.conn
            /\ \A e \in sent' : e.type = "error" /\ e.to = last'.conn
            /\ UNCHANGED <<memVars, storeVars, handlers>>]_vars

\* How often session c is in sequence q.
Times(c, q) == Cardinality({i \in 1..Len(q) : q[i] = c})

\* No other connection has presented the identity of connection c.
OnlySessionOfItsUser(c) == \A x \in Conns \ {c} : UserOf(x) # UserOf(c)

C25_ListCountsLiveRoster ==
    [][\A e \in sent' :
          e.type = "listedRoom"
             => e.msg.memberCount = Cardinality(RosterOf(activeRooms', e.room))]_vars

\* C26: an invite row is inserted only by a createInvite handler whose
\* requester has a membership row in the room, and it is an unused invite to
\* that room that expires InviteExpiry after the insert; a createInvite of a
\* requester without the row is answered with an error and inserts nothing.
C26_InviteOnlyFromMember ==
    [][/\ invites' # invites
          => \E h \in InFlight :
                /\ Stepped(h)
                /\ h.op = "createInvite"
                /\ <<h.arg, UserOf(h.conn)>> \in members
                /\ \E code \in DOMAIN invites' \ DOMAIN invites :
                      /\ DOMAIN invites' = DOMAIN invites \cup {code}
                      /\ \A i \in DOMAIN invites : invites'[i] = invites[i]
                      /\ invites'[code].roomId = h.arg
                      /\ invites'[code].usedById = Null
                      /\ invites'[code].expiresAt = now + InviteExpiry
       /\ \A h \in InFlight :
            (/\ Stepped(h)
             /\ h.pc = "ciMember"
             /\ <<h.arg, UserOf(h.conn)>> \notin members)
            => /\ invites' = invites
               /\ handlers' = Finish(h)
               /\ wsState[h.conn] = "open"
                    => sent' = {Event(h.conn, "error", Null, Null, "notMember")}]_vars

\* u2, who joined R1 in this run, holds an invite to R1 made after time passed.
C26_Witness ==
    /\ now > 0
    /\ \E code \in DOMAIN invites \ Codes :
         /\ invites[code].roomId = "R1"
         /\ invites[code].expiresAt = now + InviteExpiry
         /\ \E e \in sent : e.type = "inviteCreated" /\ e.who = code /\ UserOf(e.to) = "u2"

\* C27: a connection is accepted only when the store was reached at start.
C27_NoConnectionWithoutStore ==
    \A c \in Conns : wsState[c] # "idle" => quota.storeReached

\* A frame of connection c is handed to the dispatcher in this step.
FrameTaken(c) == quota'.frames < quota.frames /\ last'.conn = c

\* C28: the handler of a connection's frame does not start while a handler of
\* an earlier frame of that connection is still suspended at a store operation.
C28_OneHandlerPerConnection ==
    [][\A c \in Conns :
          FrameTaken(c) => \A h \in InFlight : h.conn # c]_vars

\* C29: every session in the registry belongs to a connection that has not
\* closed.
C29_RegistryHoldsNoClosedConnection ==
    \A c \in connectedUsers : wsState[c] # "closed"

\* The message row with id m of room r is among the events evs, written to
\* connection x as a live message event.
Delivered(evs, m, r, x) ==
    \E e \in evs : e.type = "message" /\ e.room = r /\ e.msg = m /\ e.to = x

\* C30: ids are given in insertion order; a session that was just sent a message
\* of a room is not sent next a message of that room that was inserted earlier.
C30_DeliveryFollowsPersistence ==
    [][\A r \in RoomIds, x \in Conns, m2 \in 2..OrderFrames, m1 \in 1..OrderFrames :
          m1 < m2 /\ Delivered(sent, m2, r, x) => ~Delivered(sent', m1, r, x)]_vars

\* Rows m1 and m2 are in the store and were sent by different identities.
OtherSender(m1, m2) ==
    /\ m2 <= Len(messages)
    /\ messages[m1].senderId # messages[m2].senderId

\* The same order for the messages of two connections of different identities,
\* where no connection has two handlers suspended.
DeliveryFollowsPersistenceAcrossSenders ==
    [][\A r \in RoomIds, x \in Conns, m2 \in 2..OrderFrames, m1 \in 1..OrderFrames :
          m1 < m2 /\ Delivered(sent, m2, r, x) /\ OtherSender(m1, m2)
              => ~Delivered(sent', m1, r, x)]_vars

\* C31: in the store, an invite marked used by an identity comes with the
\* membership row of the invite's room and that identity.
C31_UsedInviteHasMembership ==
    \A i \in DOMAIN invites :
        invites[i].usedById # Null
            => <<invites[i].roomId, invites[i].usedById>> \in members

\* A message was just broadcast to room r while the closed connection c was in
\* its roster.
BroadcastFoundClosed(c, r) ==
    /\ c \in RosterOf(activeRooms, r)
    /\ wsState[c] = "closed"
    /\ \E e \in sent : e.type = "message" /\ e.room = r

\* C32: a roster member that a broadcast finds closed is eventually out of the
\* roster, and the session that caused the broadcast is sent no error for it.
C32_BroadcastCleansClosedMember ==
    /\ \A c \in Conns, r \in RoomIds :
          BroadcastFoundClosed(c, r) ~> c \notin RosterOf(activeRooms, r)
    /\ [](\A c \in Conns, r \in RoomIds :
            BroadcastFoundClosed(c, r) => \A e \in sent : e.type # "error")

\* No renameRoom handler is suspended.
NoRenameInFlight == \A h \in InFlight : h.op # "renameRoom"

\* C33: while no renameRoom is in flight, every ActiveRoom's cached name is the
\* name of the room's row in the store.
C33_CachedNameIsStoredName ==
    NoRenameInFlight
        => \A r \in DOMAIN activeRooms : activeRooms[r].name = rooms[r].name

\* C34: a createDM handler whose target exists does not end with an error
\* written to the caller.
C34_CreateDMJoinsCaller ==
    [][\A h \in InFlight :
          /\ h.op = "createDM"
          /\ UserExists(h.arg)
          /\ handlers' = Finish(h)
          => \A e \in sent' : ~(e.to = h.conn /\ e.type = "error")]_vars

\* C35: a message row is inserted only for a room that is not deleted.
C35_NoMessageForDeletedRoom ==
    [][Len(messages') > Len(messages)
          => ~rooms[messages'[Len(messages')].roomId].deleted]_vars

\* The identities with a membership row of room r.
MembersOf(r) == {u \in Users : <<r, u>> \in members}

\* C36: a dm room has no member beyond the two identities it was created for.
C36_DMRoomKeepsItsPair ==
    \A r \in DOMAIN rooms :
        rooms[r].roomType = "dm" => Cardinality(MembersOf(r)) <= 2

\* The ids of the rows in the history snapshot q.
SnapIds(q) == {q[i].id : i \in 1..Len(q)}

\* Row i was inserted after the snapshot q was read: its id is above every id
\* of the snapshot.
InsertedAfter(i, q) == \A k \in SnapIds(q) : i > k

\* The broadcast of row i is still to come: the handler that inserted it is
\* suspended at the insert.
BroadcastPending(i) ==
    \E g \in InFlight : g.pc = "created" /\ g.snap.ok /\ g.snap.msg = i

\* C37: when a join brings a session into a roster, every row of the room that
\* another identity sent and that was inserted after the join's history
\* snapshot was read is still to be broadcast, so that the joiner, now in the
\* roster, is sent it live.
C37_JoinerMissesNoMessage ==
    [][\A h \in InFlight :
          (/\ Stepped(h)
           /\ h.pc = "upserted"
           /\ h.conn \notin RosterOf(activeRooms, h.snap.room))
          => \A i \in 1..Len(messages) :
                (/\ messages[i].roomId = h.snap.room
                 /\ messages[i].senderId # UserOf(h.conn)
                 /\ InsertedAfter(i, h.snap.messages))
                => BroadcastPending(i)]_vars

\* Connection c leaves its current room in this step: by a leaveRoom frame that
\* names it, or by its close.
LeavesCurrentRoom(c) ==
    /\ currentRoomId[c] # Null
    /\ \/ quota' = Taken(quota) /\ last' = Frame("leaveRoom", c, currentRoomId[c])
       \/ wsState[c] = "open" /\ wsState'[c] = "closed"

\* C38: when a connection leaves its room or closes, every other open
\* connection stays in the roster it is in.
C38_LeaveRemovesOnlyTheLeaver ==
    [][\A c \in Conns : LeavesCurrentRoom(c)
          => \A r \in DOMAIN activeRooms, d \in Conns \ {c} :
                (d \in Roster(r) /\ wsState[d] = "open")
                    => d \in RosterOf(activeRooms', r)]_vars

\* A verifySignature handler passes its checks in this step.
Passes(h) ==
    /\ h.pc = "vfUser"
    /\ CopiesIn([h EXCEPT !.pc = "vfChecked"], handlers')
         > CopiesIn([h EXCEPT !.pc = "vfChecked"], handlers)

\* The challenge handler h read is the newest ever issued, has not expired, and
\* is no longer stored: a verifySignature that passed has deleted it.
AlreadyUsed(h) ==
    /\ h.snap.msg = challengesIssued
    /\ now - h.snap.expiresAt <= ChallengeTimeout
    /\ activeChallenges[h.arg] = NoChallenge

\* C39: no verifySignature passes with a challenge that an earlier
\* verifySignature has passed with.
C39_ChallengeVerifiesOnce ==
    [][\A h \in InFlight : Passes(h) => ~AlreadyUsed(h)]_vars

\* The entries of room r's users roster in the variant's registry cr.
VariantUsers(cr, r) == Range(cr[r].users)

\* C40: an entry enters a room's users only in the step of an approveJoin
\* frame sent by a socket that is in the room's users, or when the room has no
\* users.
C40_AdmissionNeedsAMember ==
    [][\A r \in DOMAIN chatRooms :
          VariantUsers(chatRooms', r) \ VariantUsers(chatRooms, r) # {}
             => \/ Len(chatRooms[r].users) = 0
                \/ /\ last'.type = "approveJoin"
                   /\ last'.conn \in Sockets(chatRooms[r].users)]_vars
====
